---- MODULE Spec2Model ----
(***************************************************************************)
(* A model of serde-xml: the escape/unescape utility, the XML tokenizer    *)
(* (XmlReader), the Serde serializer and the Serde deserializer.           *)
(*                                                                         *)
(* Text is modelled as a sequence of one-character strings, one per byte;  *)
(* offsets are zero-based as in the source, so byte i of the source is     *)
(* element i+1 of the sequence.  The token "xFF" stands for a byte that is *)
(* not valid UTF-8.                                                        *)
(***************************************************************************)
EXTENDS Integers, Sequences, FiniteSets, TLC

VARIABLES
    input,          \* XmlReader.input
    pos,            \* XmlReader.pos
    line,           \* XmlReader.line
    col,            \* XmlReader.col
    element_stack,  \* XmlReader.element_stack
    calls,          \* the next_event calls made so far, each with its result
    esc_s,          \* the string handed to escape
    esc_escaped,    \* the Cow returned by escape(esc_s), once it has run
    esc_unescaped,  \* the Result returned by unescape of that, once it has run
    ty,             \* the Rust type that is serialized or deserialized
    ser_value,      \* the value of that type handed to the serializer
    struct_ser,     \* the StructSerializer of the root struct, once created
    ser_next,       \* the index of the next field to serialize, 0 before serialize_struct
    ser_result,     \* the Result<String> of to_string, once it has returned
    doc,            \* the document handed to from_str: root attributes and children
    prolog,         \* the text in front of the root element of that document
    de,             \* the Deserializer
    map_de,         \* the MapDeserializer of the root struct, once created
    de_pc,          \* where the visitor of the root struct stands
    de_got,         \* the fields the visitor of the root struct has read
    de_log,         \* the keys yielded to that visitor, each with the value read
    de_result,      \* the Result<T> of from_str, once it has returned
    writer,         \* the XmlWriter, its Vec<u8> sink included
    writer_log      \* the XmlWriter calls made so far, each with its result

readerVars == <<input, pos, line, col, element_stack>>
escapeVars == <<esc_s, esc_escaped, esc_unescaped>>
tokenizerVars == <<input, pos, line, col, element_stack, calls>>
serVars == <<ty, ser_value, struct_ser, ser_next, ser_result>>
deVars == <<doc, prolog, de, map_de, de_pc, de_got, de_log, de_result>>
writerVars == <<writer, writer_log>>
vars == <<input, pos, line, col, element_stack, calls,
          esc_s, esc_escaped, esc_unescaped,
          ty, ser_value, struct_ser, ser_next, ser_result,
          doc, prolog, de, map_de, de_pc, de_got, de_log, de_result,
          writer, writer_log>>

\* the reader is not in use
ReaderIdle ==
    /\ input = <<>> /\ pos = 0 /\ line = 1 /\ col = 1
    /\ element_stack = <<>> /\ calls = <<>>

\* escape and unescape are not in use
EscapeIdle == esc_s = <<>> /\ esc_escaped = <<>> /\ esc_unescaped = <<>>

\* the writer is not in use
WriterIdle == writer = <<>> /\ writer_log = <<>>

\* the serializer is not in use
SerIdle ==
    /\ ty = <<>> /\ ser_value = <<>> /\ struct_ser = <<>>
    /\ ser_next = 0 /\ ser_result = <<>>

\* the deserializer is not in use
DeIdle ==
    /\ doc = <<>> /\ prolog = <<>> /\ de = <<>> /\ map_de = <<>> /\ de_pc = "idle"
    /\ de_got = <<>> /\ de_log = <<>> /\ de_result = <<>>

\* ------------------------------------------------------------------------
\* Byte-slice helpers (Rust slice notation, zero-based, half-open)
\* ------------------------------------------------------------------------

\* `let x = v; ...`: v is evaluated once and bound to x
With(v, K(_)) == CHOOSE y \in {K(x) : x \in {v}} : TRUE

\* bytes[a..b]
Slice(bytes, a, b) == SubSeq(bytes, a + 1, b)

\* bytes[a..]
SliceFrom(bytes, a) == SubSeq(bytes, a + 1, Len(bytes))

\* Option::None for offsets
NoOffset == -1

\* memchr(needle, haystack): offset of the first occurrence, or NoOffset
memchr(needle, haystack) ==
    IF \E i \in 1..Len(haystack) : haystack[i] = needle
    THEN (CHOOSE i \in 1..Len(haystack) :
             /\ haystack[i] = needle
             /\ \A j \in 1..(i - 1) : haystack[j] # needle) - 1
    ELSE NoOffset

\* memchr2(n1, n2, haystack)
memchr2(n1, n2, haystack) ==
    IF \E i \in 1..Len(haystack) : haystack[i] \in {n1, n2}
    THEN (CHOOSE i \in 1..Len(haystack) :
             /\ haystack[i] \in {n1, n2}
             /\ \A j \in 1..(i - 1) : haystack[j] \notin {n1, n2}) - 1
    ELSE NoOffset

\* std::str::from_utf8(bytes).is_ok()
from_utf8_ok(bytes) == \A i \in 1..Len(bytes) : bytes[i] # "xFF"

\* char::is_whitespace on the modelled characters (str::trim)
IsTrimWhitespace(c) == c \in {" ", "\t", "\n", "\r", "\f"}

RECURSIVE trim_start(_)
trim_start(s) ==
    IF s # <<>> /\ IsTrimWhitespace(Head(s)) THEN trim_start(Tail(s)) ELSE s

RECURSIVE trim_end(_)
trim_end(s) ==
    IF s # <<>> /\ IsTrimWhitespace(s[Len(s)])
    THEN trim_end(SubSeq(s, 1, Len(s) - 1)) ELSE s

\* str::trim
trim(s) == trim_end(trim_start(s))

\* ------------------------------------------------------------------------
\* escape.rs
\* ------------------------------------------------------------------------

NeedsEscapeBytes == {"<", ">", "&", "\"", "'"}

\* the match of escape_to_inner: the entity for a byte, <<>> for `continue`
\* escaped_entity passing the ampersand through unescaped
escaped_entity_amp_raw(byte) ==
    CASE byte = "<"  -> <<"&", "l", "t", ";">>
      [] byte = ">"  -> <<"&", "g", "t", ";">>
      [] byte = "\"" -> <<"&", "q", "u", "o", "t", ";">>
      [] byte = "'"  -> <<"&", "a", "p", "o", "s", ";">>
      [] OTHER       -> <<>>

\* the match of escape_to_inner: the entity for a byte, empty for `continue`
escaped_entity(byte) ==
    CASE byte = "<"  -> <<"&", "l", "t", ";">>
      [] byte = ">"  -> <<"&", "g", "t", ";">>
      [] byte = "&"  -> <<"&", "a", "m", "p", ";">>
      [] byte = "\"" -> <<"&", "q", "u", "o", "t", ";">>
      [] byte = "'"  -> <<"&", "a", "p", "o", "s", ";">>
      [] OTHER       -> <<>>

\* the for loop of escape_to_inner, with its batching index `start`
RECURSIVE escape_loop(_, _, _, _)
escape_loop(bytes, i, start, out) ==
    IF i >= Len(bytes)
    THEN IF start < Len(bytes) THEN out \o SliceFrom(bytes, start) ELSE out
    ELSE LET escaped == escaped_entity(bytes[i + 1])
         IN IF escaped = <<>>
            THEN escape_loop(bytes, i + 1, start, out)
            ELSE escape_loop(bytes, i + 1, i + 1,
                    (IF start < i THEN out \o Slice(bytes, start, i) ELSE out)
                        \o escaped)

escape_to_inner(bytes, out) == escape_loop(bytes, 0, 0, out)

\* escape: Cow::Borrowed(s) when nothing needs escaping, else Cow::Owned
escape(s) ==
    LET needs_escape == \E i \in 1..Len(s) : s[i] \in NeedsEscapeBytes
    IN IF ~needs_escape
       THEN [borrowed |-> TRUE, str |-> s]
       ELSE [borrowed |-> FALSE, str |-> escape_to_inner(s, <<>>)]

DecDigits == <<"0", "1", "2", "3", "4", "5", "6", "7", "8", "9">>
HexDigitsLower == DecDigits \o <<"a", "b", "c", "d", "e", "f">>
HexDigitsUpper == DecDigits \o <<"A", "B", "C", "D", "E", "F">>

\* char::to_digit(radix): the digit's value, or -1
to_digit(c, radix) ==
    IF \E k \in 1..radix : HexDigitsLower[k] = c \/ HexDigitsUpper[k] = c
    THEN (CHOOSE k \in 1..radix : HexDigitsLower[k] = c \/ HexDigitsUpper[k] = c) - 1
    ELSE -1

\* the largest Unicode scalar value (char::MAX)
CharMax == 1114111

\* the value of a digit string; every value above char::MAX is reported as
\* CharMax + 1: u32 overflow and char::from_u32 both yield None for it
RECURSIVE digits_value(_, _, _)
digits_value(digits, radix, acc) ==
    IF digits = <<>> THEN acc
    ELSE LET v == acc * radix + to_digit(Head(digits), radix)
         IN digits_value(Tail(digits), radix, IF v > CharMax THEN CharMax + 1 ELSE v)

\* u32::from_str_radix(digits, radix).ok(): the value, or -1 for None
u32_from_str_radix(digits, radix) ==
    LET body == IF digits # <<>> /\ Head(digits) = "+" THEN Tail(digits) ELSE digits
    IN IF body = <<>> \/ \E i \in 1..Len(body) : to_digit(body[i], radix) < 0
       THEN -1
       ELSE digits_value(body, radix, 0)

\* the characters of the model that have a code point of their own
CodePoints ==
    [c \in {"<", ">", "&", "\"", "'", "A", "a", " ", "\n"} |->
        CASE c = "<" -> 60 [] c = ">" -> 62 [] c = "&" -> 38 [] c = "\"" -> 34
          [] c = "'" -> 39 [] c = "A" -> 65 [] c = "a" -> 97 [] c = " " -> 32
          [] c = "\n" -> 10]

\* Option<T>: None is the empty tuple, Some(x) the one-element tuple
None == <<>>
Some(x) == <<x>>
Unwrap(opt) == opt[1]

\* char::from_u32(code): None for surrogates and values above 0x10FFFF
char_from_u32(code) ==
    IF code > CharMax \/ (code >= 55296 /\ code <= 57343) THEN None
    ELSE IF \E c \in DOMAIN CodePoints : CodePoints[c] = code
         THEN Some(CHOOSE c \in DOMAIN CodePoints : CodePoints[c] = code)
         ELSE Some("U+" \o ToString(code))

\* decode_numeric_entity(entity): the character, or None
decode_numeric_entity(entity) ==
    IF entity = <<>> \/ entity[1] # "#" THEN None
    ELSE LET hex == Len(entity) > 1 /\ entity[2] \in {"x", "X"}
             radix == IF hex THEN 16 ELSE 10
             digits == IF hex THEN SliceFrom(entity, 2) ELSE SliceFrom(entity, 1)
         IN IF digits = <<>> THEN None
            ELSE LET code == u32_from_str_radix(digits, radix)
                 IN IF code < 0 THEN None ELSE char_from_u32(code)

\* decode_entity_fast(entity): the character, or None
decode_entity_fast(entity) ==
    CASE entity = <<"l", "t">>           -> Some("<")
      [] entity = <<"g", "t">>           -> Some(">")
      [] entity = <<"a", "m", "p">>      -> Some("&")
      [] entity = <<"q", "u", "o", "t">> -> Some("\"")
      [] entity = <<"a", "p", "o", "s">> -> Some("'")
      [] OTHER                           -> decode_numeric_entity(entity)

MaxEntityLen == 10

UnescapeError(entity, position) ==
    [ok |-> FALSE, borrowed |-> FALSE, str |-> <<>>, entity |-> entity, position |-> position]

UnescapeOk(str) ==
    [ok |-> TRUE, borrowed |-> FALSE, str |-> str, entity |-> <<>>, position |-> 0]

RECURSIVE unescape_from(_, _, _)

\* unescape_from after an entity has been decoded to c: i is past its `;`
unescape_after_entity(bytes, i, out) ==
    With(memchr("&", SliceFrom(bytes, i)), LAMBDA next_amp :
        IF next_amp # NoOffset
        THEN unescape_from(bytes, i + next_amp, out \o Slice(bytes, i, i + next_amp))
        ELSE UnescapeOk(out \o SliceFrom(bytes, i)))

\* unescape_from at an `&` found at entity_start, len is the offset of the `;`
unescape_entity(bytes, entity_start, len, out) ==
    With(decode_entity_fast(Slice(bytes, entity_start + 1, entity_start + 1 + len)),
         LAMBDA c :
        IF c # None
        THEN unescape_after_entity(bytes, entity_start + 1 + len + 1, out \o c)
        ELSE UnescapeError(
                (<<"&">> \o Slice(bytes, entity_start + 1, entity_start + 1 + len))
                    \o <<";">>,
                entity_start))

\* unescape_from(bytes, start, out): the while loop, i is the loop index
unescape_from(bytes, i, out) ==
    IF i >= Len(bytes) THEN UnescapeOk(out)
    ELSE IF bytes[i + 1] = "&"
    THEN With(memchr(";", SliceFrom(bytes, i + 1)), LAMBDA len :
            IF len > 0 /\ len <= MaxEntityLen
            THEN unescape_entity(bytes, i, len, out)
            ELSE UnescapeError(<<"&">>, i))
    ELSE unescape_from(bytes, i + 1, out)

\* unescape: Ok(Cow::Borrowed(s)) when s holds no '&'
unescape(s) ==
    LET first_amp == memchr("&", s)
    IN IF first_amp = NoOffset
       THEN [ok |-> TRUE, borrowed |-> TRUE, str |-> s, entity |-> <<>>, position |-> 0]
       ELSE unescape_from(s, first_amp, Slice(s, 0, first_amp))

\* ------------------------------------------------------------------------
\* error.rs
\* ------------------------------------------------------------------------

\* Error::new(kind): no position
ErrorNew(kind) ==
    [type |-> "Err", kind |-> kind, msg |-> "", name |-> <<>>,
     expected |-> <<>>, found |-> <<>>, position |-> None]

\* Error::with_position
with_position(e, p) == [e EXCEPT !.position = Some(p)]

unexpected_eof == ErrorNew("UnexpectedEof")
syntax(msg) == [ErrorNew("Syntax") EXCEPT !.msg = msg]
invalid_name(name) == [ErrorNew("InvalidName") EXCEPT !.name = name]
invalid_value(msg) == [ErrorNew("InvalidValue") EXCEPT !.msg = msg]
unclosed_tag(tag) == [ErrorNew("UnclosedTag") EXCEPT !.name = tag]
mismatched_tag(expected, found) ==
    [ErrorNew("MismatchedTag") EXCEPT !.expected = expected, !.found = found]
\* Error::invalid_escape building an error of kind Custom
invalid_escape_as_custom(entity) == [ErrorNew("Custom") EXCEPT !.name = entity]
invalid_escape(entity) == [ErrorNew("InvalidEscape") EXCEPT !.name = entity]
unsupported(msg) == [ErrorNew("Unsupported") EXCEPT !.msg = msg]
custom(msg) == [ErrorNew("Custom") EXCEPT !.msg = msg]

\* ------------------------------------------------------------------------
\* reader.rs: lookup tables and events
\* ------------------------------------------------------------------------

UpperLetters ==
    {"A", "B", "C", "D", "E", "F", "G", "H", "I", "J", "K", "L", "M",
     "N", "O", "P", "Q", "R", "S", "T", "U", "V", "W", "X", "Y", "Z"}
LowerLetters ==
    {"a", "b", "c", "d", "e", "f", "g", "h", "i", "j", "k", "l", "m",
     "n", "o", "p", "q", "r", "s", "t", "u", "v", "w", "x", "y", "z"}
HighBytes == {"xFF"}

IS_WHITESPACE(b) == b \in {" ", "\t", "\n", "\r"}
IS_NAME_START(b) == b \in UpperLetters \cup LowerLetters \cup {"_", ":"} \cup HighBytes
IS_NAME_CHAR(b) ==
    \/ IS_NAME_START(b)
    \/ b \in {"0", "1", "2", "3", "4", "5", "6", "7", "8", "9", "-", "."}

\* XmlEvent variants
StartElement(name, attributes) ==
    [type |-> "StartElement", name |-> name, attributes |-> attributes]
EndElement(name) == [type |-> "EndElement", name |-> name]
EmptyElement(name, attributes) ==
    [type |-> "EmptyElement", name |-> name, attributes |-> attributes]
Text(text) == [type |-> "Text", text |-> text]
CData(text) == [type |-> "CData", text |-> text]
Comment(text) == [type |-> "Comment", text |-> text]
ProcessingInstruction(target, data) ==
    [type |-> "ProcessingInstruction", target |-> target, data |-> data]
XmlDecl(version, encoding, standalone) ==
    [type |-> "XmlDecl", version |-> version, encoding |-> encoding,
     standalone |-> standalone]
Eof == [type |-> "Eof"]

\* Attribute
Attribute(name, value) == [name |-> name, value |-> value]

\* XmlReader::from_bytes
XmlReader(bytes) ==
    [input |-> bytes, pos |-> 0, line |-> 1, col |-> 1, element_stack |-> <<>>]

\* XmlReader::position
position(r) == [line |-> r.line, column |-> r.col, offset |-> r.pos]

\* XmlReader::depth
depth(r) == Len(r.element_stack)

\* the byte at offset i of the input
ByteAt(r, i) == r.input[i + 1]

\* pos += n; col += n
Advance(r, n) == [r EXCEPT !.pos = @ + n, !.col = @ + n]

\* the outcome of a reader function: the reader afterwards and Ok(ev) or
\* Err(ev) (ev.type = "Err")
Ret(r, ev) == [r |-> r, ev |-> ev]

\* the outcome of an internal reader function returning Result<T>
OkVal(r, val) == [ok |-> TRUE, r |-> r, val |-> val, err |-> ErrorNew("")]
Fail(r, err) == [ok |-> FALSE, r |-> r, val |-> <<>>, err |-> err]

\* ------------------------------------------------------------------------
\* reader.rs: scanning
\* ------------------------------------------------------------------------

\* `let x = res?; ...` in a function that returns Result<XmlEvent>
Then(res, K(_)) ==
    CHOOSE y \in {IF x.ok THEN K(x) ELSE Ret(x.r, x.err) : x \in {res}} : TRUE

\* `let x = res?; ...` in a function that returns Result<T>
ThenVal(res, K(_)) ==
    CHOOSE y \in {IF x.ok THEN K(x) ELSE Fail(x.r, x.err) : x \in {res}} : TRUE

RECURSIVE skip_whitespace_fast(_)
skip_whitespace_fast(r) ==
    IF r.pos < Len(r.input) /\ IS_WHITESPACE(ByteAt(r, r.pos))
    THEN skip_whitespace_fast(
            IF ByteAt(r, r.pos) = "\n"
            THEN [r EXCEPT !.line = @ + 1, !.col = 1, !.pos = @ + 1]
            ELSE [r EXCEPT !.col = @ + 1, !.pos = @ + 1])
    ELSE r

\* line/column bookkeeping for the bytes start..end; pos is left alone
RECURSIVE update_position_for_range(_, _, _)
update_position_for_range(r, start, end) ==
    IF start >= end THEN r
    ELSE update_position_for_range(
            IF ByteAt(r, start) = "\n"
            THEN [r EXCEPT !.line = @ + 1, !.col = 1]
            ELSE [r EXCEPT !.col = @ + 1],
            start + 1, end)

\* update_position_for_range(pos, end); pos = end
MoveTo(r, end) == [update_position_for_range(r, r.pos, end) EXCEPT !.pos = end]

\* the while loop of read_name over the name characters
RECURSIVE read_name_chars(_)
read_name_chars(r) ==
    IF r.pos < Len(r.input) /\ IS_NAME_CHAR(ByteAt(r, r.pos))
    THEN read_name_chars(Advance(r, 1))
    ELSE r

read_name(r) ==
    IF r.pos >= Len(r.input)
    THEN Fail(r, with_position(unexpected_eof, position(r)))
    ELSE IF ~IS_NAME_START(ByteAt(r, r.pos))
    THEN Fail(r, with_position(invalid_name(<<ByteAt(r, r.pos)>>), position(r)))
    ELSE With(read_name_chars(Advance(r, 1)), LAMBDA r1 :
            IF from_utf8_ok(Slice(r.input, r.pos, r1.pos))
            THEN OkVal(r1, Slice(r.input, r.pos, r1.pos))
            ELSE Fail(r1, ErrorNew("InvalidUtf8")))

expect_char(r, expected) ==
    IF r.pos >= Len(r.input)
    THEN Fail(r, with_position(unexpected_eof, position(r)))
    ELSE IF ByteAt(r, r.pos) # expected
    THEN Fail(r, with_position(
              [syntax("expected char") EXCEPT !.expected = <<expected>>,
                                              !.found = <<ByteAt(r, r.pos)>>],
              position(r)))
    ELSE OkVal(Advance(r, 1), <<>>)

\* read_attribute_value once the opening quote has been consumed
read_quoted_value(r, quote) ==
    With(memchr(quote, SliceFrom(r.input, r.pos)), LAMBDA offset :
        IF offset = NoOffset
        THEN Fail(r, with_position(syntax("unterminated attribute value"), position(r)))
        ELSE IF ~from_utf8_ok(Slice(r.input, r.pos, r.pos + offset))
        THEN Fail(r, ErrorNew("InvalidUtf8"))
        ELSE With(unescape(Slice(r.input, r.pos, r.pos + offset)), LAMBDA unescaped :
                IF unescaped.ok THEN OkVal(Advance(r, offset + 1), unescaped.str)
                ELSE Fail(Advance(r, offset + 1), invalid_escape(unescaped.entity))))

read_attribute_value(r) ==
    IF r.pos >= Len(r.input)
    THEN Fail(r, with_position(unexpected_eof, position(r)))
    ELSE IF ByteAt(r, r.pos) # "\"" /\ ByteAt(r, r.pos) # "'"
    THEN Fail(r, with_position(syntax("expected quote"), position(r)))
    ELSE read_quoted_value(Advance(r, 1), ByteAt(r, r.pos))

\* the loop of read_attributes
RECURSIVE read_attributes_loop(_, _)
read_attributes_loop(r0, attributes) ==
    With(skip_whitespace_fast(r0), LAMBDA r :
        IF r.pos >= Len(r.input) \/ ByteAt(r, r.pos) \in {">", "/", "?"}
        THEN OkVal(r, attributes)
        ELSE ThenVal(read_name(r), LAMBDA n :
             ThenVal(expect_char(skip_whitespace_fast(n.r), "="), LAMBDA e :
             ThenVal(read_attribute_value(skip_whitespace_fast(e.r)), LAMBDA v :
                read_attributes_loop(v.r, Append(attributes, Attribute(n.val, v.val)))))))

read_attributes(r) == read_attributes_loop(r, <<>>)

RECURSIVE next_event(_)

\* ------------------------------------------------------------------------
\* reader.rs: events
\* ------------------------------------------------------------------------

\* read_text returning the run as it stands, whitespace included
text_event_untrimmed(r, text) ==
    IF ~from_utf8_ok(text) THEN Ret(r, ErrorNew("InvalidUtf8"))
    ELSE With(unescape(text), LAMBDA unescaped :
            IF unescaped.ok THEN Ret(r, Text(unescaped.str))
            ELSE Ret(r, invalid_escape(unescaped.entity)))

\* read_text once the run start..r.pos has been scanned
text_event(r, text) ==
    IF ~from_utf8_ok(text) THEN Ret(r, ErrorNew("InvalidUtf8"))
    ELSE IF trim(text) = <<>> THEN next_event(r)
    ELSE With(unescape(trim(text)), LAMBDA unescaped :
            IF unescaped.ok THEN Ret(r, Text(unescaped.str))
            ELSE Ret(r, invalid_escape(unescaped.entity)))

read_text(r) ==
    With(memchr("<", SliceFrom(r.input, r.pos)), LAMBDA offset :
    With(IF offset # NoOffset THEN r.pos + offset ELSE Len(r.input), LAMBDA end :
        text_event(MoveTo(r, end), Slice(r.input, r.pos, end))))

\* open_element with the push onto the nesting stack forgotten
open_element_no_push(r, name, attributes) ==
    Ret(Advance(r, 1), StartElement(name, attributes))

\* the tail of read_start_element for `>`: push the name, return StartElement
open_element(r, name, attributes) ==
    Ret([Advance(r, 1) EXCEPT !.element_stack = Append(@, name)],
        StartElement(name, attributes))

\* the tail of read_start_element for `/`: EmptyElement, nothing is pushed
empty_element(r, name, attributes) ==
    Then(expect_char(Advance(r, 1), ">"), LAMBDA e :
        Ret(e.r, EmptyElement(name, attributes)))

read_start_element(r) ==
    Then(read_name(r), LAMBDA n :
    Then(read_attributes(n.r), LAMBDA a :
    With(skip_whitespace_fast(a.r), LAMBDA r2 :
        IF r2.pos >= Len(r2.input)
        THEN Ret(r2, with_position(unexpected_eof, position(r2)))
        ELSE IF ByteAt(r2, r2.pos) = "/" THEN empty_element(r2, n.val, a.val)
        ELSE IF ByteAt(r2, r2.pos) = ">" THEN open_element(r2, n.val, a.val)
        ELSE Ret(r2, with_position(syntax("expected '>' or '/>'"), position(r2))))))

\* the nesting stack without its top
Popped(r) == [r EXCEPT !.element_stack = SubSeq(@, 1, Len(@) - 1)]

\* close_element with the name comparison dropped
close_element_unchecked(r, name) ==
    IF r.element_stack # <<>>
    THEN Ret(Popped(r), EndElement(name))
    ELSE Ret(r, with_position([syntax("unexpected closing tag") EXCEPT !.name = name],
                              position(r)))

\* the tail of read_end_element: pop the stack and validate the name
close_element(r, name) ==
    IF r.element_stack # <<>>
    THEN IF r.element_stack[Len(r.element_stack)] = name
         THEN Ret(Popped(r), EndElement(name))
         ELSE Ret(Popped(r),
                  with_position(mismatched_tag(r.element_stack[Len(r.element_stack)], name),
                                position(r)))
    ELSE Ret(r, with_position([syntax("unexpected closing tag") EXCEPT !.name = name],
                              position(r)))

read_end_element(r) ==
    Then(read_name(Advance(r, 1)), LAMBDA n :
    Then(expect_char(skip_whitespace_fast(n.r), ">"), LAMBDA e :
        close_element(e.r, n.val)))

\* the fold of read_xml_decl over the pseudo-attributes (the last one wins)
RECURSIVE xml_decl_fields(_, _)
xml_decl_fields(attributes, acc) ==
    IF attributes = <<>> THEN acc
    ELSE xml_decl_fields(Tail(attributes),
            CASE Head(attributes).name = <<"v", "e", "r", "s", "i", "o", "n">> ->
                     [acc EXCEPT !.version = Some(Head(attributes).value)]
              [] Head(attributes).name = <<"e", "n", "c", "o", "d", "i", "n", "g">> ->
                     [acc EXCEPT !.encoding = Some(Head(attributes).value)]
              [] Head(attributes).name = <<"s", "t", "a", "n", "d", "a", "l", "o", "n", "e">> ->
                     [acc EXCEPT !.standalone =
                         Some(Head(attributes).value = <<"y", "e", "s">>)]
              [] OTHER -> acc)

read_xml_decl(r) ==
    Then(read_attributes(r), LAMBDA a :
    With(skip_whitespace_fast(a.r), LAMBDA r1 :
        IF \/ r1.pos + 1 >= Len(r1.input)
           \/ ByteAt(r1, r1.pos) # "?"
           \/ ByteAt(r1, r1.pos + 1) # ">"
        THEN Ret(r1, with_position(syntax("expected '?>'"), position(r1)))
        ELSE With(xml_decl_fields(a.val, [version |-> None, encoding |-> None,
                                          standalone |-> None]), LAMBDA f :
                Ret(Advance(r1, 2),
                    XmlDecl(IF f.version = None THEN <<"1", ".", "0">>
                            ELSE Unwrap(f.version),
                            f.encoding, f.standalone)))))

\* the end of read_processing_instruction: `?>` found at check_pos
pi_event(r, target, data) ==
    IF ~from_utf8_ok(data) THEN Ret(r, ErrorNew("InvalidUtf8"))
    ELSE Ret(Advance(r, 2),
             ProcessingInstruction(target,
                 IF trim(data) = <<>> THEN None ELSE Some(trim(data))))

\* the while loop of read_processing_instruction
RECURSIVE read_pi_data(_, _, _)
read_pi_data(r, target, data_start) ==
    With(memchr("?", SliceFrom(r.input, r.pos)), LAMBDA offset :
        IF r.pos + 1 < Len(r.input) /\ offset # NoOffset
        THEN IF /\ r.pos + offset + 1 < Len(r.input)
                /\ ByteAt(r, r.pos + offset + 1) = ">"
             THEN pi_event(MoveTo(r, r.pos + offset), target,
                           Slice(r.input, data_start, r.pos + offset))
             ELSE read_pi_data(MoveTo(r, r.pos + offset + 1), target, data_start)
        ELSE Ret(r, with_position(syntax("unterminated processing instruction"),
                                  position(r))))

\* str::eq_ignore_ascii_case(target, "xml")
is_xml_target(target) ==
    /\ Len(target) = 3
    /\ target[1] \in {"x", "X"}
    /\ target[2] \in {"m", "M"}
    /\ target[3] \in {"l", "L"}

read_processing_instruction(r) ==
    Then(read_name(Advance(r, 1)), LAMBDA n :
        IF is_xml_target(n.val) THEN read_xml_decl(n.r)
        ELSE With(skip_whitespace_fast(n.r), LAMBDA r1 :
                read_pi_data(r1, n.val, r1.pos)))

\* the end of read_comment / read_cdata: the terminator found at check_pos
delimited_event(r, body, check_pos, ev) ==
    IF ~from_utf8_ok(body) THEN Ret(update_position_for_range(r, r.pos, check_pos),
                                    ErrorNew("InvalidUtf8"))
    ELSE Ret([update_position_for_range(r, r.pos, check_pos)
                 EXCEPT !.pos = check_pos + 3, !.col = @ + 3], ev)

\* the while loop of read_comment
RECURSIVE read_comment_body(_, _)
read_comment_body(r, start) ==
    With(memchr("-", SliceFrom(r.input, r.pos)), LAMBDA offset :
        IF r.pos + 2 < Len(r.input) /\ offset # NoOffset
        THEN IF /\ r.pos + offset + 2 < Len(r.input)
                /\ ByteAt(r, r.pos + offset + 1) = "-"
                /\ ByteAt(r, r.pos + offset + 2) = ">"
             THEN delimited_event(r, Slice(r.input, start, r.pos + offset), r.pos + offset,
                                  Comment(trim(Slice(r.input, start, r.pos + offset))))
             ELSE read_comment_body(MoveTo(r, r.pos + offset + 1), start)
        ELSE Ret(r, with_position(syntax("unterminated comment"), position(r))))

read_comment(r) == read_comment_body(Advance(r, 2), r.pos + 2)

\* the while loop of read_cdata
RECURSIVE read_cdata_body(_, _)
read_cdata_body(r, start) ==
    With(memchr("]", SliceFrom(r.input, r.pos)), LAMBDA offset :
        IF r.pos + 2 < Len(r.input) /\ offset # NoOffset
        THEN IF /\ r.pos + offset + 2 < Len(r.input)
                /\ ByteAt(r, r.pos + offset + 1) = "]"
                /\ ByteAt(r, r.pos + offset + 2) = ">"
             THEN delimited_event(r, Slice(r.input, start, r.pos + offset), r.pos + offset,
                                  CData(Slice(r.input, start, r.pos + offset)))
             ELSE read_cdata_body(MoveTo(r, r.pos + offset + 1), start)
        ELSE Ret(r, with_position(syntax("unterminated CDATA section"), position(r))))

read_cdata(r) == read_cdata_body(Advance(r, 7), r.pos + 7)

\* the while loop of skip_doctype; nesting is its local `depth`
RECURSIVE skip_doctype_loop(_, _)
skip_doctype_loop(r, nesting) ==
    IF r.pos < Len(r.input) /\ nesting > 0
    THEN With(memchr2("<", ">", SliceFrom(r.input, r.pos)), LAMBDA offset :
            IF offset # NoOffset
            THEN skip_doctype_loop(Advance(MoveTo(r, r.pos + offset), 1),
                    IF ByteAt(r, r.pos + offset) = "<" THEN nesting + 1 ELSE nesting - 1)
            ELSE MoveTo(r, Len(r.input)))
    ELSE r

skip_doctype(r) == next_event(skip_doctype_loop(r, 1))

CDATA_OPEN == <<"[", "C", "D", "A", "T", "A", "[">>
DOCTYPE == <<"D", "O", "C", "T", "Y", "P", "E">>

read_special(r0) ==
    With(Advance(r0, 1), LAMBDA r :
        IF r.pos >= Len(r.input)
        THEN Ret(r, with_position(unexpected_eof, position(r)))
        ELSE IF /\ r.pos + 1 < Len(r.input)
                /\ ByteAt(r, r.pos) = "-"
                /\ ByteAt(r, r.pos + 1) = "-"
        THEN read_comment(r)
        ELSE IF r.pos + 6 < Len(r.input) /\ Slice(r.input, r.pos, r.pos + 7) = CDATA_OPEN
        THEN read_cdata(r)
        ELSE IF r.pos + 6 < Len(r.input) /\ Slice(r.input, r.pos, r.pos + 7) = DOCTYPE
        THEN skip_doctype(r)
        ELSE Ret(r, with_position(syntax("unknown construct after '<!'"), position(r))))

read_tag(r0) ==
    With(Advance(r0, 1), LAMBDA r :
        IF r.pos >= Len(r.input)
        THEN Ret(r, with_position(unexpected_eof, position(r)))
        ELSE CASE ByteAt(r, r.pos) = "/" -> read_end_element(r)
               [] ByteAt(r, r.pos) = "?" -> read_processing_instruction(r)
               [] ByteAt(r, r.pos) = "!" -> read_special(r)
               [] OTHER -> read_start_element(r))

\* end_of_input without the check of the nesting stack
end_of_input_unchecked(r) == Ret(r, Eof)

\* end_of_input stepping past the end of the buffer when it reports Eof
end_of_input_advancing(r) ==
    IF r.element_stack # <<>>
    THEN Ret(Popped(r), with_position(unclosed_tag(r.element_stack[Len(r.element_stack)]),
                                      position(r)))
    ELSE Ret(Advance(r, 1), Eof)

\* end_of_input reporting the unclosed element without popping it
end_of_input_keeping_stack(r) ==
    IF r.element_stack # <<>>
    THEN Ret(r, with_position(unclosed_tag(r.element_stack[Len(r.element_stack)]),
                              position(r)))
    ELSE Ret(r, Eof)

\* the end-of-input branch of next_event
end_of_input(r) ==
    IF r.element_stack # <<>>
    THEN Ret(Popped(r), with_position(unclosed_tag(r.element_stack[Len(r.element_stack)]),
                                      position(r)))
    ELSE Ret(r, Eof)

next_event(r0) ==
    With(skip_whitespace_fast(r0), LAMBDA r :
        IF r.pos >= Len(r.input) THEN end_of_input(r)
        ELSE IF ByteAt(r, r.pos) = "<" THEN read_tag(r)
        ELSE read_text(r))

\* ------------------------------------------------------------------------
\* Values handed to the serializer and produced by the deserializer
\* ------------------------------------------------------------------------

\* a Rust value: kind is one of "str", "u8", "bool", "none", "some", "seq",
\* "struct"; items holds the payload of Some, the elements of a Vec or the
\* field values of a struct (whose field names are keys)
Value(kind) ==
    [kind |-> kind, name |-> <<>>, keys |-> <<>>, text |-> <<>>, num |-> 0,
     flag |-> FALSE, items |-> <<>>]
VStr(text) == [Value("str") EXCEPT !.text = text]
VU8(n) == [Value("u8") EXCEPT !.num = n]
VBool(b) == [Value("bool") EXCEPT !.flag = b]
VNone == Value("none")
VSome(v) == [Value("some") EXCEPT !.items = <<v>>]
VSeq(items) == [Value("seq") EXCEPT !.items = items]
VStruct(name, keys, items) ==
    [Value("struct") EXCEPT !.name = name, !.keys = keys, !.items = items]
\* a unit variant of an enum, by its name
VVariant(variant) == [Value("variant") EXCEPT !.name = variant]
\* a tuple, by its elements
VTuple(items) == [Value("tuple") EXCEPT !.items = items]
\* a map, by its keys (texts) and the values they map to
VMap(keys, items) == [Value("map") EXCEPT !.keys = keys, !.items = items]

\* ------------------------------------------------------------------------
\* ser.rs: Serializer
\* ------------------------------------------------------------------------

\* Serializer::new
SerializerNew ==
    [output |-> <<>>, root |-> None, current_element |-> None,
     element_stack |-> <<>>, is_key |-> FALSE, current_key |-> None,
     include_declaration |-> FALSE, indent_level |-> 0, indent_str |-> None]

\* Serializer::with_declaration
with_declaration(s) == [s EXCEPT !.include_declaration = TRUE]

\* Serializer::into_string
into_string(s) == s.output

\* self.output.push_str(text)
Push(s, text) == [s EXCEPT !.output = @ \o text]

saturating_sub(a, b) == IF a >= b THEN a - b ELSE 0

RECURSIVE Repeat(_, _)
Repeat(text, n) == IF n <= 0 THEN <<>> ELSE text \o Repeat(text, n - 1)

write_indent(s) ==
    IF s.indent_str # None
    THEN Push(IF s.output # <<>> /\ s.output[Len(s.output)] # "\n"
              THEN Push(s, <<"\n">>) ELSE s,
              Repeat(Unwrap(s.indent_str), saturating_sub(s.indent_level, 1)))
    ELSE s

\* the loop writing ` name="escaped value"` for each attribute
RECURSIVE attrs_text(_)
attrs_text(attrs) ==
    IF attrs = <<>> THEN <<>>
    ELSE ((((<<" ">> \o Head(attrs).name) \o <<"=", "\"">>)
              \o escape(Head(attrs).value).str) \o <<"\"">>)
            \o attrs_text(Tail(attrs))

write_start_tag(s, name) ==
    [Push(write_indent(s), (<<"<">> \o name) \o <<">">>)
        EXCEPT !.element_stack = Append(@, name), !.indent_level = @ + 1]

write_start_tag_with_attrs(s, name, attrs) ==
    [Push(write_indent(s), ((<<"<">> \o name) \o attrs_text(attrs)) \o <<">">>)
        EXCEPT !.element_stack = Append(@, name), !.indent_level = @ + 1]

\* write_end_tag writing the closing tag without popping the element
write_end_tag_keeping_stack(s) ==
    IF s.element_stack # <<>>
    THEN Push(write_indent([s EXCEPT !.indent_level = saturating_sub(@, 1)]),
              (<<"<", "/">> \o s.element_stack[Len(s.element_stack)]) \o <<">">>)
    ELSE [s EXCEPT !.indent_level = saturating_sub(@, 1)]

\* Serializer::write_end_tag
write_end_tag(s) ==
    IF s.element_stack # <<>>
    THEN Push(write_indent([s EXCEPT !.indent_level = saturating_sub(@, 1),
                                     !.element_stack = SubSeq(@, 1, Len(@) - 1)]),
              (<<"<", "/">> \o s.element_stack[Len(s.element_stack)]) \o <<">">>)
    ELSE [s EXCEPT !.indent_level = saturating_sub(@, 1)]

write_empty_element(s, name) ==
    Push(write_indent(s), (<<"<">> \o name) \o <<"/", ">">>)

write_empty_element_with_attrs(s, name, attrs) ==
    Push(write_indent(s), ((<<"<">> \o name) \o attrs_text(attrs)) \o <<"/", ">">>)

write_element(s, name, content) ==
    Push(write_indent(s),
         ((((<<"<">> \o name) \o <<">">>) \o escape(content).str)
             \o (<<"<", "/">> \o name)) \o <<">">>)

write_text(s, content) == Push(s, escape(content).str)

\* itoa::Buffer::format for a non-negative integer
RECURSIVE itoa(_)
itoa(n) ==
    IF n < 10 THEN <<DecDigits[n + 1]>>
    ELSE Append(itoa(n \div 10), DecDigits[(n % 10) + 1])

\* the body shared by serialize_bool .. serialize_char: an element named by
\* the pending key, which is taken, or bare text when no key is pending
serialize_primitive_keeping_key(s, text) ==
    IF s.current_key # None
    THEN write_element(s, Unwrap(s.current_key), text)
    ELSE write_text(s, text)

serialize_primitive(s, text) ==
    IF s.current_key # None
    THEN write_element([s EXCEPT !.current_key = None], Unwrap(s.current_key), text)
    ELSE write_text(s, text)

serialize_bool(s, v) ==
    serialize_primitive(s, IF v THEN <<"t", "r", "u", "e">>
                           ELSE <<"f", "a", "l", "s", "e">>)

serialize_u64(s, v) == serialize_primitive(s, itoa(v))

serialize_u8(s, v) == serialize_u64(s, v)

serialize_str(s, v) ==
    IF s.is_key THEN [s EXCEPT !.current_key = Some(v), !.is_key = FALSE]
    ELSE serialize_primitive(s, v)

serialize_none(s) == [s EXCEPT !.current_key = None]

serialize_unit_variant(s, variant) ==
    IF s.current_key # None
    THEN write_element([s EXCEPT !.current_key = None], Unwrap(s.current_key), variant)
    ELSE write_empty_element(s, variant)

\* Result<()> of a serializer call, with the serializer as it is left
SerOk(s) == [ok |-> TRUE, s |-> s, err |-> None]
SerErr(s, e) == [ok |-> FALSE, s |-> s, err |-> Some(e)]

RECURSIVE serialize(_, _)

serialize_some(s, value) == serialize(s, value)

\* SeqSerializer { ser, element_name }
serialize_seq(s) ==
    [ser |-> [s EXCEPT !.current_key = None],
     element_name |-> IF s.current_key # None THEN Unwrap(s.current_key)
                      ELSE <<"i", "t", "e", "m">>]

\* SeqSerializer::serialize_element
serialize_element(sq, value) ==
    serialize([sq.ser EXCEPT !.current_key = Some(sq.element_name)], value)

\* impl Serialize for Vec<T>: serialize_seq, one serialize_element per item, end
RECURSIVE serialize_elements(_, _)
serialize_elements(sq, items) ==
    IF items = <<>> THEN SerOk(sq.ser)
    ELSE With(serialize_element(sq, Head(items)), LAMBDA res :
            IF res.ok THEN serialize_elements([sq EXCEPT !.ser = res.s], Tail(items))
            ELSE res)

\* serialize_map naming a keyless map `map` whatever the root is
serialize_map_ignoring_root(s) ==
    write_start_tag([s EXCEPT !.current_key = None],
                    IF s.current_key # None THEN Unwrap(s.current_key)
                    ELSE <<"m", "a", "p">>)

\* Serializer::serialize_map: the start tag of the map's element
serialize_map(s) ==
    write_start_tag([s EXCEPT !.current_key = None],
                    IF s.current_key # None THEN Unwrap(s.current_key)
                    ELSE IF s.root # None THEN Unwrap(s.root)
                    ELSE <<"m", "a", "p">>)

\* MapSerializer::serialize_key with a String key
serialize_key(s, key) == serialize_str([s EXCEPT !.is_key = TRUE], key)

\* MapSerializer::serialize_value
serialize_value(s, value) == serialize(s, value)

\* impl Serialize for BTreeMap: serialize_key and serialize_value per entry,
\* then MapSerializer::end
RECURSIVE serialize_entries(_, _, _)
serialize_entries(s, keys, items) ==
    IF keys = <<>> THEN SerOk(write_end_tag(s))
    ELSE With(serialize_value(serialize_key(s, Head(keys)), Head(items)), LAMBDA res :
            IF res.ok THEN serialize_entries(res.s, Tail(keys), Tail(items))
            ELSE res)

\* ------------------------------------------------------------------------
\* ser.rs: AttrValueSerializer
\* ------------------------------------------------------------------------

AttrOk(out) == [ok |-> TRUE, out |-> out, err |-> None]
AttrErr(e) == [ok |-> FALSE, out |-> <<>>, err |-> Some(e)]

\* an attribute serializer that escapes a string as it takes it
RECURSIVE attr_value_escaping(_)
attr_value_escaping(v) ==
    CASE v.kind = "str"  -> AttrOk(escape(v.text).str)
      [] v.kind = "u8"   -> AttrOk(itoa(v.num))
      [] v.kind = "bool" -> AttrOk(IF v.flag THEN <<"t", "r", "u", "e">>
                                   ELSE <<"f", "a", "l", "s", "e">>)
      [] v.kind = "none" -> AttrOk(<<>>)
      [] v.kind = "variant" -> AttrOk(v.name)
      [] v.kind = "some" -> attr_value_escaping(v.items[1])
      [] v.kind = "seq"  -> AttrErr(unsupported("sequence in attribute"))
      [] v.kind = "tuple" -> AttrErr(unsupported("tuple in attribute"))
      [] v.kind = "map"  -> AttrErr(unsupported("map in attribute"))
      [] OTHER           -> AttrErr(unsupported("struct in attribute"))

\* an attribute serializer that joins the items of a sequence with spaces
RECURSIVE attr_value_joining_items(_)
attr_value_joining_items(v) ==
    CASE v.kind = "str"  -> AttrOk(v.text)
      [] v.kind = "u8"   -> AttrOk(itoa(v.num))
      [] v.kind = "bool" -> AttrOk(IF v.flag THEN <<"t", "r", "u", "e">>
                                   ELSE <<"f", "a", "l", "s", "e">>)
      [] v.kind = "none" -> AttrOk(<<>>)
      [] v.kind = "variant" -> AttrOk(v.name)
      [] v.kind = "some" -> attr_value_joining_items(v.items[1])
      [] v.kind = "seq"  ->
            IF v.items = <<>> THEN AttrOk(<<>>)
            ELSE With(attr_value_joining_items(Head(v.items)), LAMBDA h :
                 With(attr_value_joining_items([v EXCEPT !.items = Tail(@)]), LAMBDA t :
                    IF h.ok /\ t.ok THEN AttrOk((h.out \o <<" ">>) \o t.out)
                    ELSE IF h.ok THEN t ELSE h))
      [] v.kind = "tuple" -> AttrErr(unsupported("tuple in attribute"))
      [] v.kind = "map"  -> AttrErr(unsupported("map in attribute"))
      [] OTHER           -> AttrErr(unsupported("struct in attribute"))

\* value.serialize(&mut attr_ser) followed by attr_ser.into_string()
RECURSIVE attr_value(_)
attr_value(v) ==
    CASE v.kind = "str"  -> AttrOk(v.text)
      [] v.kind = "u8"   -> AttrOk(itoa(v.num))
      [] v.kind = "bool" -> AttrOk(IF v.flag THEN <<"t", "r", "u", "e">>
                                   ELSE <<"f", "a", "l", "s", "e">>)
      [] v.kind = "none" -> AttrOk(<<>>)
      [] v.kind = "variant" -> AttrOk(v.name)
      [] v.kind = "some" -> attr_value(v.items[1])
      [] v.kind = "seq"  -> AttrErr(unsupported("sequence in attribute"))
      [] v.kind = "tuple" -> AttrErr(unsupported("tuple in attribute"))
      [] v.kind = "map"  -> AttrErr(unsupported("map in attribute"))
      [] OTHER           -> AttrErr(unsupported("struct in attribute"))

\* ------------------------------------------------------------------------
\* ser.rs: StructSerializer
\* ------------------------------------------------------------------------

serialize_struct(s, name) ==
    [ser |-> [s EXCEPT !.current_key = None],
     elem_name |-> IF s.current_key # None THEN Unwrap(s.current_key) ELSE name,
     attrs |-> <<>>, children |-> <<>>, text_content |-> None, started |-> FALSE]

RECURSIVE Concat(_)
Concat(texts) == IF texts = <<>> THEN <<>> ELSE Head(texts) \o Concat(Tail(texts))

\* ensure_started, writing the opening tag at every call
ensure_started_every_time(st) ==
    [st EXCEPT !.ser = write_start_tag_with_attrs(st.ser, st.elem_name, st.attrs),
               !.started = TRUE]

\* StructSerializer::ensure_started
ensure_started(st) ==
    IF ~st.started
    THEN [st EXCEPT !.ser = Push(write_start_tag_with_attrs(@, st.elem_name, st.attrs),
                                 Concat(st.children)),
                    !.children = <<>>,
                    !.started = TRUE]
    ELSE st

VALUE_KEY == <<"$", "v", "a", "l", "u", "e">>
TEXT_KEY == <<"$", "t", "e", "x", "t">>

StructOk(st) == [ok |-> TRUE, st |-> st, err |-> None]
StructErr(st, err) == [ok |-> FALSE, st |-> st, err |-> err]

\* the attribute branch of serialize_field
serialize_attr_field(st, attr_name, value) ==
    With(attr_value(value), LAMBDA a :
        IF a.ok THEN StructOk([st EXCEPT !.attrs = Append(@, Attribute(attr_name, a.out))])
        ELSE StructErr(st, a.err))

\* the $value / $text branch of serialize_field
serialize_text_field(st, value) ==
    With(serialize(SerializerNew, value), LAMBDA t :
        IF t.ok THEN StructOk([st EXCEPT !.text_content = Some(t.s.output)])
        ELSE StructErr(st, t.err))

\* the regular-field branch of serialize_field
serialize_child_field(st, key, value) ==
    With(serialize([st.ser EXCEPT !.current_key = Some(key)], value), LAMBDA res :
        [ok |-> res.ok, st |-> [st EXCEPT !.ser = res.s], err |-> res.err])

\* StructSerializer::serialize_field
serialize_field(st, key, value) ==
    IF key # <<>> /\ Head(key) = "@" THEN serialize_attr_field(st, Tail(key), value)
    ELSE IF key = VALUE_KEY \/ key = TEXT_KEY THEN serialize_text_field(st, value)
    ELSE serialize_child_field(ensure_started(st), key, value)

\* StructSerializer::end writing a plain start tag before the text content
StructSerializer_end_plain_tag(st) ==
    IF st.started
    THEN write_end_tag(IF st.text_content # None
                       THEN Push(st.ser, Unwrap(st.text_content)) ELSE st.ser)
    ELSE IF st.attrs = <<>> /\ st.text_content = None
    THEN write_empty_element(st.ser, st.elem_name)
    ELSE IF st.text_content # None
    THEN write_end_tag(Push(write_start_tag(st.ser, st.elem_name),
                            Unwrap(st.text_content)))
    ELSE write_empty_element_with_attrs(st.ser, st.elem_name, st.attrs)

\* StructSerializer::end
StructSerializer_end(st) ==
    IF st.started
    THEN write_end_tag(IF st.text_content # None
                       THEN Push(st.ser, Unwrap(st.text_content)) ELSE st.ser)
    ELSE IF st.attrs = <<>> /\ st.text_content = None
    THEN write_empty_element(st.ser, st.elem_name)
    ELSE IF st.text_content # None
    THEN write_end_tag(Push(write_start_tag_with_attrs(st.ser, st.elem_name, st.attrs),
                            Unwrap(st.text_content)))
    ELSE write_empty_element_with_attrs(st.ser, st.elem_name, st.attrs)

\* #[derive(Serialize)] on a struct: one serialize_field per field, in
\* declaration order
RECURSIVE serialize_fields(_, _, _)
serialize_fields(st, keys, items) ==
    IF keys = <<>> THEN StructOk(st)
    ELSE With(serialize_field(st, Head(keys), Head(items)), LAMBDA res :
            IF res.ok THEN serialize_fields(res.st, Tail(keys), Tail(items))
            ELSE res)

\* value.serialize(serializer) for each kind of value
serialize(s, v) ==
    CASE v.kind = "str"  -> SerOk(serialize_str(s, v.text))
      [] v.kind = "u8"   -> SerOk(serialize_u8(s, v.num))
      [] v.kind = "bool" -> SerOk(serialize_bool(s, v.flag))
      [] v.kind = "none" -> SerOk(serialize_none(s))
      [] v.kind = "variant" -> SerOk(serialize_unit_variant(s, v.name))
      [] v.kind = "some" -> serialize_some(s, v.items[1])
      [] v.kind = "seq"  -> serialize_elements(serialize_seq(s), v.items)
      [] v.kind = "tuple" -> serialize_elements(serialize_seq(s), v.items)
      [] v.kind = "map"  -> serialize_entries(serialize_map(s), v.keys, v.items)
      [] OTHER ->
            With(serialize_fields(serialize_struct(s, v.name), v.keys, v.items),
                 LAMBDA res :
                IF res.ok THEN SerOk(StructSerializer_end(res.st))
                ELSE SerErr(res.st.ser, Unwrap(res.err)))

\* to_string: Ok(output) or Err
to_string(value) ==
    With(serialize(SerializerNew, value), LAMBDA res :
        [ok |-> res.ok, str |-> IF res.ok THEN res.s.output ELSE <<>>, err |-> res.err])

\* Serializer::with_root
SerializerWithRoot(root) == [SerializerNew EXCEPT !.root = Some(root)]

\* to_string_with_root: Ok(output) or Err
to_string_with_root(value, root) ==
    With(serialize(SerializerWithRoot(root), value), LAMBDA res :
        [ok |-> res.ok, str |-> IF res.ok THEN res.s.output ELSE <<>>, err |-> res.err])

\* ------------------------------------------------------------------------
\* de.rs: Deserializer
\* ------------------------------------------------------------------------

\* the events a reader returns from its state on, up to and including the
\* Eof or the error at which a deserializer stops pulling
RECURSIVE events_from(_)
events_from(r) ==
    With(next_event(r), LAMBDA res :
        IF res.ev.type \in {"Eof", "Err"} THEN <<res.ev>>
        ELSE <<res.ev>> \o events_from(res.r))

\* Deserializer::from_str. The reader is deterministic and only the
\* deserializer pulls from it, so it is held as the events it returns and the
\* index of the next one.
DeserializerFromStr(s) ==
    [reader |-> [events |-> events_from(XmlReader(s)), next |-> 1],
     peeked |-> None, pending_value |-> None,
     start_consumed |-> FALSE, is_empty_element |-> FALSE]

\* Result<T> of a deserializer call, with the deserializer as it is left
DeOk(d, val) == [ok |-> TRUE, d |-> d, val |-> val, err |-> None]
DeErr(d, e) == [ok |-> FALSE, d |-> d, val |-> <<>>, err |-> Some(e)]

\* `let x = res?; ...` in the deserializer
ThenDe(res, K(_)) == IF res.ok THEN K(res) ELSE DeErr(res.d, Unwrap(res.err))

\* self.reader.next_event() as a Result of the deserializer
reader_next_event(d) ==
    With(d.reader.events[d.reader.next], LAMBDA ev :
        IF ev.type = "Err" THEN DeErr(d, ev)
        ELSE IF ev.type = "Eof" THEN DeOk(d, ev)
        ELSE DeOk([d EXCEPT !.reader.next = @ + 1], ev))

\* Deserializer::peek_event
peek_event(d) ==
    IF d.peeked = None
    THEN ThenDe(reader_next_event(d), LAMBDA res :
            DeOk([res.d EXCEPT !.peeked = Some(res.val)], res.val))
    ELSE DeOk(d, Unwrap(d.peeked))

\* Deserializer::next_event
de_next_event(d) ==
    IF d.peeked # None THEN DeOk([d EXCEPT !.peeked = None], Unwrap(d.peeked))
    ELSE reader_next_event(d)

\* the loop of read_text_content
RECURSIVE read_text_content_loop(_, _)
read_text_content_loop(d, content) ==
    ThenDe(peek_event(d), LAMBDA p :
        IF p.val.type \in {"Text", "CData"}
        THEN ThenDe(de_next_event(p.d), LAMBDA n :
                read_text_content_loop(n.d, content \o p.val.text))
        ELSE DeOk(p.d, content))

read_text_content(d) == read_text_content_loop(d, <<>>)

\* the end of read_element_text: consume the end tag after a start tag
consume_end_element(d, content) ==
    IF d.start_consumed
    THEN ThenDe(peek_event([d EXCEPT !.start_consumed = FALSE]), LAMBDA p :
            IF p.val.type = "EndElement"
            THEN ThenDe(de_next_event(p.d), LAMBDA n : DeOk(n.d, content))
            ELSE DeOk(p.d, content))
    ELSE DeOk(d, content)

read_element_text(d) ==
    IF d.is_empty_element
    THEN DeOk([d EXCEPT !.is_empty_element = FALSE, !.start_consumed = FALSE], <<>>)
    ELSE ThenDe(read_text_content(d), LAMBDA c : consume_end_element(c.d, c.val))

\* the loop of skip_element; nesting is its local `depth`
RECURSIVE skip_element_loop(_, _)
skip_element_loop(d, nesting) ==
    IF nesting > 0
    THEN ThenDe(de_next_event(d), LAMBDA n :
            CASE n.val.type = "StartElement" -> skip_element_loop(n.d, nesting + 1)
              [] n.val.type = "EndElement"   -> skip_element_loop(n.d, nesting - 1)
              [] n.val.type = "Eof"          -> DeErr(n.d, unexpected_eof)
              [] OTHER                       -> skip_element_loop(n.d, nesting))
    ELSE DeOk(d, <<>>)

skip_element(d) == skip_element_loop(d, 1)

\* get_text when nothing is pending and no start tag has been consumed
get_text_from_events(d) ==
    ThenDe(peek_event(d), LAMBDA p :
        CASE p.val.type = "StartElement" ->
                ThenDe(de_next_event(p.d), LAMBDA n :
                    read_element_text([n.d EXCEPT !.start_consumed = TRUE,
                                                  !.is_empty_element = FALSE]))
          [] p.val.type = "EmptyElement" ->
                ThenDe(de_next_event(p.d), LAMBDA n : DeOk(n.d, <<>>))
          [] OTHER -> read_text_content(p.d))

\* get_text consulting the start-consumed flag before the pending value
get_text_flag_first(d) ==
    IF d.start_consumed THEN read_element_text(d)
    ELSE IF d.pending_value # None
    THEN DeOk([d EXCEPT !.pending_value = None], Unwrap(d.pending_value))
    ELSE get_text_from_events(d)

\* Deserializer::get_text
get_text(d) ==
    IF d.pending_value # None
    THEN DeOk([d EXCEPT !.pending_value = None], Unwrap(d.pending_value))
    ELSE IF d.start_consumed THEN read_element_text(d)
    ELSE get_text_from_events(d)

\* parse_value::<u8>: u8::from_str, None for an error
parse_u8(text) ==
    With(u32_from_str_radix(text, 10), LAMBDA n :
        IF n < 0 \/ n > 255 THEN None ELSE Some(n))

\* deserialize_bool taking "y" for true as well
deserialize_bool_accepting_y(d) ==
    ThenDe(get_text(d), LAMBDA t :
        IF t.val \in {<<"t", "r", "u", "e">>, <<"1">>, <<"y", "e", "s">>, <<"y">>}
        THEN DeOk(t.d, VBool(TRUE))
        ELSE IF t.val \in {<<"f", "a", "l", "s", "e">>, <<"0">>, <<"n", "o">>}
        THEN DeOk(t.d, VBool(FALSE))
        ELSE DeErr(t.d, invalid_value("expected boolean")))

deserialize_bool(d) ==
    ThenDe(get_text(d), LAMBDA t :
        IF t.val \in {<<"t", "r", "u", "e">>, <<"1">>, <<"y", "e", "s">>}
        THEN DeOk(t.d, VBool(TRUE))
        ELSE IF t.val \in {<<"f", "a", "l", "s", "e">>, <<"0">>, <<"n", "o">>}
        THEN DeOk(t.d, VBool(FALSE))
        ELSE DeErr(t.d, invalid_value("expected boolean")))

deserialize_u8(d) ==
    ThenDe(get_text(d), LAMBDA t :
        IF parse_u8(t.val) # None THEN DeOk(t.d, VU8(Unwrap(parse_u8(t.val))))
        ELSE DeErr(t.d, invalid_value("invalid digit found in string")))

deserialize_string(d) == ThenDe(get_text(d), LAMBDA t : DeOk(t.d, VStr(t.val)))

\* Field::deserialize of a derived struct: the key as text
deserialize_identifier(d) == get_text(d)

\* the match of deserialize_ignored_any on the peeked event
ignore_next_event(d) ==
    ThenDe(peek_event(d), LAMBDA p :
        CASE p.val.type = "StartElement" ->
                ThenDe(de_next_event(p.d), LAMBDA n : skip_element(n.d))
          [] p.val.type \in {"EmptyElement", "Text", "CData"} ->
                ThenDe(de_next_event(p.d), LAMBDA n : DeOk(n.d, <<>>))
          [] OTHER -> DeOk(p.d, <<>>))

\* deserialize_ignored_any with a visitor that takes the unit (IgnoredAny)
deserialize_ignored_any(d0) ==
    With([d0 EXCEPT !.pending_value = None], LAMBDA d :
        IF d.start_consumed
        THEN IF ~d.is_empty_element
             THEN ThenDe(skip_element(d), LAMBDA k :
                     DeOk([k.d EXCEPT !.start_consumed = FALSE,
                                      !.is_empty_element = FALSE], <<>>))
             ELSE DeOk([d EXCEPT !.start_consumed = FALSE,
                                 !.is_empty_element = FALSE], <<>>)
        ELSE ignore_next_event(d))

RECURSIVE deserialize(_, _)

\* EnumDeserializer::variant_seed with the identifier of a derived enum as
\* the seed: the variant name as text
variant_seed(d) ==
    IF d.pending_value # None THEN deserialize_identifier(d)
    ELSE ThenDe(peek_event(d), LAMBDA p :
            CASE p.val.type \in {"StartElement", "EmptyElement"} ->
                    deserialize_identifier([p.d EXCEPT !.pending_value = Some(p.val.name)])
              [] p.val.type = "Text" ->
                    deserialize_identifier([p.d EXCEPT !.pending_value = Some(p.val.text)])
              [] OTHER -> deserialize_identifier(p.d))

\* the match of unit_variant on the peeked event
unit_variant_from_events(d) ==
    ThenDe(peek_event(d), LAMBDA p :
        CASE p.val.type = "EmptyElement" ->
                ThenDe(de_next_event(p.d), LAMBDA n : DeOk(n.d, <<>>))
          [] p.val.type = "StartElement" ->
                ThenDe(de_next_event(p.d), LAMBDA n : skip_element(n.d))
          [] OTHER -> DeOk(p.d, <<>>))

\* EnumDeserializer::unit_variant
unit_variant(d) ==
    IF d.start_consumed
    THEN IF ~d.is_empty_element
         THEN ThenDe(skip_element(d), LAMBDA k :
                 DeOk([k.d EXCEPT !.start_consumed = FALSE,
                                  !.is_empty_element = FALSE], <<>>))
         ELSE DeOk([d EXCEPT !.start_consumed = FALSE,
                             !.is_empty_element = FALSE], <<>>)
    ELSE unit_variant_from_events(d)

\* the derived visit_enum of an enum of unit variants: the variant is looked
\* up by name, then unit_variant
visit_enum(d, t) ==
    ThenDe(variant_seed(d), LAMBDA v :
        IF \E i \in 1..Len(t.keys) : t.keys[i] = v.val
        THEN ThenDe(unit_variant(v.d), LAMBDA u : DeOk(u.d, VVariant(v.val)))
        ELSE DeErr(v.d, custom("unknown variant")))

deserialize_enum(d, t) == visit_enum(d, t)

\* the type IgnoredAny of serde
TIgnored == [kind |-> "ignored", name |-> <<>>, keys |-> <<>>, args |-> <<>>]

\* deserialize_option taking the end tag or Eof it finds
deserialize_option_consuming_end(d, t) ==
    IF d.pending_value # None \/ d.start_consumed
    THEN ThenDe(deserialize(d, t), LAMBDA v : DeOk(v.d, VSome(v.val)))
    ELSE ThenDe(peek_event(d), LAMBDA p :
            IF p.val.type \in {"EndElement", "Eof"}
            THEN ThenDe(de_next_event(p.d), LAMBDA n : DeOk(n.d, VNone))
            ELSE ThenDe(deserialize(p.d, t), LAMBDA v : DeOk(v.d, VSome(v.val))))

\* deserialize_option with the visitor of Option<T>
deserialize_option(d, t) ==
    IF d.pending_value # None \/ d.start_consumed
    THEN ThenDe(deserialize(d, t), LAMBDA v : DeOk(v.d, VSome(v.val)))
    ELSE ThenDe(peek_event(d), LAMBDA p :
            IF p.val.type \in {"EndElement", "Eof"} THEN DeOk(p.d, VNone)
            ELSE ThenDe(deserialize(p.d, t), LAMBDA v : DeOk(v.d, VSome(v.val))))

\* ------------------------------------------------------------------------
\* de.rs: SeqDeserializer
\* ------------------------------------------------------------------------

\* SeqDeserializer::new
SeqDeserializerNew == [element_name |-> None]

SeqOk(d, sq, val) == [ok |-> TRUE, d |-> d, sq |-> sq, val |-> val, err |-> None]

\* seed.deserialize(&mut *self.de).map(Some)
seq_element(d, sq, t) ==
    ThenDe(deserialize(d, t), LAMBDA v : SeqOk(v.d, sq, Some(v.val)))

\* SeqDeserializer::next_element_seed: Some(element), or None at the end
RECURSIVE next_element_seed(_, _, _)
next_element_seed(d, sq, t) ==
    ThenDe(peek_event(d), LAMBDA p :
        CASE p.val.type \in {"StartElement", "EmptyElement"} ->
                IF sq.element_name # None
                THEN IF p.val.name # Unwrap(sq.element_name)
                     THEN SeqOk(p.d, sq, None)
                     ELSE seq_element(p.d, sq, t)
                ELSE seq_element(p.d, [sq EXCEPT !.element_name = Some(p.val.name)], t)
          [] p.val.type \in {"EndElement", "Eof"} -> SeqOk(p.d, sq, None)
          [] p.val.type \in {"Text", "CData"} -> seq_element(p.d, sq, t)
          [] OTHER -> ThenDe(de_next_event(p.d), LAMBDA n : next_element_seed(n.d, sq, t)))

\* the visitor of Vec<T>: next_element until None
RECURSIVE visit_seq(_, _, _, _)
visit_seq(d, sq, t, items) ==
    ThenDe(next_element_seed(d, sq, t), LAMBDA e :
        IF e.val = None THEN DeOk(e.d, VSeq(items))
        ELSE visit_seq(e.d, e.sq, t, Append(items, Unwrap(e.val))))

deserialize_seq(d, t) == visit_seq(d, SeqDeserializerNew, t, <<>>)

\* ------------------------------------------------------------------------
\* de.rs: MapDeserializer
\* ------------------------------------------------------------------------

MapOk(d, m, val) == [ok |-> TRUE, d |-> d, m |-> m, val |-> val, err |-> None]

\* self.de.pending_value = Some(key); seed.deserialize(&mut *self.de).map(Some)
yield_key(d, m, key) ==
    ThenDe(deserialize_identifier([d EXCEPT !.pending_value = Some(key)]), LAMBDA k :
        MapOk(k.d, m, Some(k.val)))

\* the loop of next_key_seed over the child events
RECURSIVE next_child_key(_, _)
next_child_key(d, m) ==
    ThenDe(peek_event(d), LAMBDA p :
        CASE p.val.type \in {"StartElement", "EmptyElement"} -> yield_key(p.d, m, p.val.name)
          [] p.val.type \in {"EndElement", "Eof"} ->
                MapOk(p.d, [m EXCEPT !.finished = TRUE], None)
          [] p.val.type \in {"Text", "CData"} -> yield_key(p.d, m, VALUE_KEY)
          [] OTHER -> ThenDe(de_next_event(p.d), LAMBDA n : next_child_key(n.d, m)))

\* next_key_seed looking at the child events before the attributes
next_key_seed_children_first(d, m) ==
    IF m.finished
    THEN IF m.attr_idx < Len(m.attrs)
         THEN yield_key(d, m, <<"@">> \o m.attrs[m.attr_idx + 1].name)
         ELSE MapOk(d, m, None)
    ELSE next_child_key(d, m)

\* MapDeserializer::next_key_seed: Some(key), or None at the end
next_key_seed(d, m) ==
    IF m.attr_idx < Len(m.attrs)
    THEN yield_key(d, m, <<"@">> \o m.attrs[m.attr_idx + 1].name)
    ELSE IF m.finished THEN MapOk(d, m, None)
    ELSE next_child_key(d, m)

\* MapDeserializer::next_value_seed
next_value_seed(d, m, t) ==
    IF m.attr_idx < Len(m.attrs)
    THEN ThenDe(deserialize([d EXCEPT !.pending_value =
                                Some(m.attrs[m.attr_idx + 1].value)], t),
                LAMBDA v : MapOk(v.d, [m EXCEPT !.attr_idx = @ + 1], v.val))
    ELSE ThenDe(deserialize(d, t), LAMBDA v : MapOk(v.d, m, v.val))

\* ------------------------------------------------------------------------
\* de.rs: deserialize_map and the visitor of a derived struct
\* ------------------------------------------------------------------------

MapDeserializer(attrs, is_empty) ==
    [attrs |-> attrs, attr_idx |-> 0, finished |-> is_empty, is_empty |-> is_empty]

\* the head of deserialize_map: the MapDeserializer handed to the visitor
map_access(d) ==
    IF d.start_consumed
    THEN MapOk([d EXCEPT !.start_consumed = FALSE, !.is_empty_element = FALSE],
               MapDeserializer(<<>>, d.is_empty_element), <<>>)
    ELSE ThenDe(de_next_event(d), LAMBDA n :
            CASE n.val.type = "StartElement" ->
                    MapOk(n.d, MapDeserializer(n.val.attributes, FALSE), <<>>)
              [] n.val.type = "EmptyElement" ->
                    MapOk(n.d, MapDeserializer(n.val.attributes, TRUE), <<>>)
              [] n.val.type = "Eof" -> MapOk(n.d, MapDeserializer(<<>>, TRUE), <<>>)
              [] OTHER -> MapOk(n.d, MapDeserializer(<<>>, FALSE), <<>>))

\* the tail of deserialize_map: consume the remaining content up to an end tag
RECURSIVE consume_remaining(_, _)
consume_remaining(d, result) ==
    ThenDe(peek_event(d), LAMBDA p :
        IF p.val.type = "EndElement"
        THEN ThenDe(de_next_event(p.d), LAMBDA n : DeOk(n.d, result))
        ELSE IF p.val.type = "Eof" THEN DeOk(p.d, result)
        ELSE ThenDe(de_next_event(p.d), LAMBDA n : consume_remaining(n.d, result)))

\* the index of a key among the fields of a struct type, 0 for an unknown key
FieldIndex(t, key) ==
    IF \E i \in 1..Len(t.keys) : t.keys[i] = key
    THEN CHOOSE i \in 1..Len(t.keys) : t.keys[i] = key
    ELSE 0

\* the end of a derived visit_map: a missing Option field is None, any other
\* missing field is an error
missing_field(t) ==
    IF t.kind = "option" THEN Some(VNone) ELSE None

FieldOrMissing(t, got, i) == IF got[i] # None THEN got[i] ELSE missing_field(t.args[i])

visit_map_end(d, t, got) ==
    IF \E i \in 1..Len(t.keys) : FieldOrMissing(t, got, i) = None
    THEN DeErr(d, custom("missing field"))
    ELSE DeOk(d, VStruct(t.name, t.keys,
                         [i \in 1..Len(t.keys) |-> Unwrap(FieldOrMissing(t, got, i))]))

\* one round of a derived visit_map after next_key returned Some(key)
visit_map_value(d, m, t, got, key) ==
    IF FieldIndex(t, key) = 0
    THEN ThenDe(next_value_seed(d, m, TIgnored), LAMBDA v :
            [ok |-> TRUE, d |-> v.d, m |-> v.m, got |-> got, err |-> None])
    ELSE IF got[FieldIndex(t, key)] # None
    THEN DeErr(d, custom("duplicate field"))
    ELSE ThenDe(next_value_seed(d, m, t.args[FieldIndex(t, key)]), LAMBDA v :
            [ok |-> TRUE, d |-> v.d, m |-> v.m,
             got |-> [got EXCEPT ![FieldIndex(t, key)] = Some(v.val)], err |-> None])

\* the loop of a derived visit_map
RECURSIVE visit_map(_, _, _, _)
visit_map(d, m, t, got) ==
    ThenDe(next_key_seed(d, m), LAMBDA k :
        IF k.val = None THEN visit_map_end(k.d, t, got)
        ELSE ThenDe(visit_map_value(k.d, k.m, t, got, Unwrap(k.val)), LAMBDA v :
                visit_map(v.d, v.m, t, v.got)))

\* no field of the struct has been seen
NoFields(t) == [i \in 1..Len(t.keys) |-> None]

deserialize_map(d, t) ==
    ThenDe(map_access(d), LAMBDA a :
    ThenDe(visit_map(a.d, a.m, t, NoFields(t)), LAMBDA v :
        IF ~a.m.is_empty THEN consume_remaining(v.d, v.val) ELSE v))

deserialize_struct(d, t) == deserialize_map(d, t)

\* T::deserialize(deserializer) for each kind of type
deserialize(d, t) ==
    CASE t.kind = "str"     -> deserialize_string(d)
      [] t.kind = "u8"      -> deserialize_u8(d)
      [] t.kind = "bool"    -> deserialize_bool(d)
      [] t.kind = "option"  -> deserialize_option(d, t.args[1])
      [] t.kind = "seq"     -> deserialize_seq(d, t.args[1])
      [] t.kind = "ignored" -> deserialize_ignored_any(d)
      [] t.kind = "enum"    -> deserialize_enum(d, t)
      [] OTHER              -> deserialize_struct(d, t)

\* from_str::<T>(s)
from_str(t, s) == deserialize(DeserializerFromStr(s), t)

\* ------------------------------------------------------------------------
\* A caller that pulls events from an XmlReader
\* ------------------------------------------------------------------------

MaxFrags == 4
MaxCalls == 6

\* pieces of markup the reader inputs are assembled from
ReaderFragments ==
    { <<"<", "a", ">">>, <<"<", "/", "a", ">">>,
      <<"<", "b", ">">>, <<"<", "/", "b", " ", ">">>,
      <<"<", "a", "/", ">">>, <<"t">>, <<"\n">>, <<"<">>,
      <<"<", "!", "-", "-", "-", "-", ">">> }

RECURSIVE Concatenations(_, _)
Concatenations(fragments, n) ==
    IF n = 0 THEN {<<>>}
    ELSE LET shorter == Concatenations(fragments, n - 1)
         IN shorter \cup {s \o f : s \in shorter, f \in fragments}

ReaderInputs == Concatenations(ReaderFragments, MaxFrags)

\* the reader held in the variables
TheReader ==
    [input |-> input, pos |-> pos, line |-> line, col |-> col,
     element_stack |-> element_stack]

SetReader(r) ==
    /\ input' = r.input
    /\ pos' = r.pos
    /\ line' = r.line
    /\ col' = r.col
    /\ element_stack' = r.element_stack

ReaderInit ==
    /\ \E bytes \in ReaderInputs : input = bytes
    /\ pos = XmlReader(input).pos
    /\ line = XmlReader(input).line
    /\ col = XmlReader(input).col
    /\ element_stack = XmlReader(input).element_stack
    /\ calls = <<>>
    /\ EscapeIdle
    /\ WriterIdle
    /\ SerIdle
    /\ DeIdle

\* one call of XmlReader::next_event by the caller
NextEvent ==
    /\ Len(calls) < MaxCalls
    /\ LET res == next_event(TheReader)
       IN /\ SetReader(res.r)
          /\ calls' = Append(calls, [before |-> TheReader, ev |-> res.ev])
    /\ UNCHANGED <<escapeVars, writerVars, serVars, deVars>>

ReaderNext == NextEvent

SpecReader == ReaderInit /\ [][ReaderNext]_vars

\* ------------------------------------------------------------------------
\* Properties of the tokenizer
\* ------------------------------------------------------------------------

Last(seq) == seq[Len(seq)]

\* the events returned by the calls made so far
Returned == [i \in DOMAIN calls |-> calls[i].ev]

NoErrorIn(evs) == \A i \in DOMAIN evs : evs[i].type # "Err"

CountOf(evs, type) == Cardinality({i \in DOMAIN evs : evs[i].type = type})

\* the names of the elements a sequence of events leaves open
RECURSIVE OpenNames(_)
OpenNames(evs) ==
    IF evs = <<>> THEN <<>>
    ELSE LET before == OpenNames(SubSeq(evs, 1, Len(evs) - 1))
             ev == Last(evs)
         IN CASE ev.type = "StartElement" -> Append(before, ev.name)
              [] ev.type = "EndElement" /\ before # <<>> ->
                     SubSeq(before, 1, Len(before) - 1)
              [] OTHER -> before

\* every EndElement closes the innermost element the earlier events left open
ProperlyNested(evs) ==
    \A i \in DOMAIN evs :
        evs[i].type = "EndElement" =>
            LET open == OpenNames(SubSeq(evs, 1, i - 1))
            IN open # <<>> /\ Last(open) = evs[i].name

\* C4: as long as every next_event call has succeeded, depth() is the number
\* of StartElement events returned minus the number of EndElement events
\* returned (EmptyElement counts for nothing), and every EndElement returned
\* names the most recent StartElement that was not yet closed.
C4_DepthCountsOpenElements ==
    NoErrorIn(Returned) =>
        /\ depth(TheReader) = CountOf(Returned, "StartElement")
                                - CountOf(Returned, "EndElement")
        /\ ProperlyNested(Returned)

C4_Witness ==
    /\ NoErrorIn(Returned)
    /\ CountOf(Returned, "EndElement") >= 1
    /\ CountOf(Returned, "EmptyElement") >= 1
    /\ depth(TheReader) >= 1

\* the name of the end tag `</name>` that starts at the next non-blank byte
\* of reader r, if one starts there
EndTagAt(r0) ==
    With(skip_whitespace_fast(r0), LAMBDA r :
        IF /\ r.pos + 1 < Len(r.input)
           /\ ByteAt(r, r.pos) = "<"
           /\ ByteAt(r, r.pos + 1) = "/"
        THEN With(read_name(Advance(r, 2)), LAMBDA n :
                IF n.ok /\ expect_char(skip_whitespace_fast(n.r), ">").ok
                THEN Some(n.val) ELSE None)
        ELSE None)

\* C5: a call that reads an end tag whose name differs from the innermost open
\* element fails with MismatchedTag{expected: that element, found: the name
\* read}, and no call returns an EndElement whose name is not the innermost
\* open element's.
C5_MismatchedEndTagRejected ==
    \A i \in DOMAIN calls :
        LET c == calls[i]
            open == c.before.element_stack
        IN /\ (/\ open # <<>>
               /\ EndTagAt(c.before) # None
               /\ Unwrap(EndTagAt(c.before)) # Last(open))
              => /\ c.ev.type = "Err"
                 /\ c.ev.kind = "MismatchedTag"
                 /\ c.ev.expected = Last(open)
                 /\ c.ev.found = Unwrap(EndTagAt(c.before))
           /\ c.ev.type = "EndElement"
              => open # <<>> /\ c.ev.name = Last(open)

C5_Witness ==
    \E i \in DOMAIN calls :
        /\ calls[i].ev.type = "Err"
        /\ calls[i].ev.kind = "MismatchedTag"
        /\ Len(calls[i].before.element_stack) >= 2

\* the input of reader r holds nothing but blanks from its position on
Exhausted(r) == skip_whitespace_fast(r).pos >= Len(r.input)

\* C6: a call made when the input is exhausted and an element is still open
\* fails with UnclosedTag naming the innermost open element, and Eof is only
\* returned by a call that found no element open.
C6_UnclosedTagAtEndOfInput ==
    \A i \in DOMAIN calls :
        LET c == calls[i]
            open == c.before.element_stack
        IN /\ (Exhausted(c.before) /\ open # <<>>)
              => /\ c.ev.type = "Err"
                 /\ c.ev.kind = "UnclosedTag"
                 /\ c.ev.name = Last(open)
           /\ c.ev.type = "Eof" => open = <<>>

C6_Witness ==
    \E i \in DOMAIN calls :
        /\ calls[i].ev.type = "Err"
        /\ calls[i].ev.kind = "UnclosedTag"
        /\ Len(calls[i].before.element_stack) >= 2
        /\ calls[i].before.element_stack[1] # Last(calls[i].before.element_stack)

\* C7: once a call has returned Eof, the next call returns Eof again and
\* leaves offset, line, column and depth as they were.
C7_EofIsTerminal ==
    [][(calls # <<>> /\ Last(calls).ev.type = "Eof")
          => /\ Last(calls').ev.type = "Eof"
             /\ pos' = pos
             /\ line' = line
             /\ col' = col
             /\ Len(element_stack') = Len(element_stack)]_vars

C7_Witness ==
    /\ Len(calls) >= 3
    /\ calls[Len(calls)].ev.type = "Eof"
    /\ calls[Len(calls) - 1].ev.type = "Eof"
    /\ calls[1].ev.type = "StartElement"

\* ------------------------------------------------------------------------
\* A caller that escapes a string and unescapes the result
\* (escape.rs, tests::test_roundtrip)
\* ------------------------------------------------------------------------

MaxText == 4

EscapeAlphabet == {"a", "<", ">", "&", "\"", "'", ";"}

\* all texts of at most n characters over an alphabet
RECURSIVE Texts(_, _)
Texts(alphabet, n) ==
    IF n = 0 THEN {<<>>}
    ELSE LET shorter == Texts(alphabet, n - 1)
         IN shorter \cup {Append(t, c) : t \in shorter, c \in alphabet}

EscapeInit ==
    /\ esc_s \in Texts(EscapeAlphabet, MaxText)
    /\ esc_escaped = None
    /\ esc_unescaped = None
    /\ ReaderIdle
    /\ SerIdle
    /\ DeIdle
    /\ WriterIdle

\* let escaped = escape(original);
Escape ==
    /\ esc_escaped = None
    /\ esc_escaped' = Some(escape(esc_s))
    /\ UNCHANGED <<esc_s, esc_unescaped, tokenizerVars, serVars, deVars, writerVars>>

\* let unescaped = unescape(&escaped);
Unescape ==
    /\ esc_escaped # None
    /\ esc_unescaped = None
    /\ esc_unescaped' = Some(unescape(Unwrap(esc_escaped).str))
    /\ UNCHANGED <<esc_s, esc_escaped, tokenizerVars, serVars, deVars, writerVars>>

EscapeNext == Escape \/ Unescape

SpecEscape == EscapeInit /\ [][EscapeNext]_vars

\* C9: unescape(escape(s)) returns Ok(s) for every string s, and escape(s)
\* returns s itself, borrowed, when s holds none of < > & " '
C9_EscapeRoundTrip ==
    /\ esc_escaped # None =>
          ((\A i \in 1..Len(esc_s) : esc_s[i] \notin {"<", ">", "&", "\"", "'"})
              => Unwrap(esc_escaped) = [borrowed |-> TRUE, str |-> esc_s])
    /\ esc_unescaped # None =>
          /\ Unwrap(esc_unescaped).ok
          /\ Unwrap(esc_unescaped).str = esc_s

\* a string with an ampersand and an entity-like tail has made the round trip
C9_Witness ==
    /\ esc_s = <<"&", "a", ";", "<">>
    /\ esc_unescaped # None
    /\ ~Unwrap(esc_escaped).borrowed

\* ------------------------------------------------------------------------
\* The Rust types and values of the callers
\* (ser.rs and de.rs tests: structs with #[derive(Serialize, Deserialize)])
\* ------------------------------------------------------------------------

\* a Rust type: kind is one of "str", "u8", "bool", "option", "seq", "struct";
\* args holds the payload type of Option and Vec, or the field types of a
\* struct (whose field names, after #[serde(rename)], are keys)
Type(kind) == [kind |-> kind, name |-> <<>>, keys |-> <<>>, args |-> <<>>]
TStr == Type("str")
TU8 == Type("u8")
TBool == Type("bool")
TOption(t) == [Type("option") EXCEPT !.args = <<t>>]
TSeq(t) == [Type("seq") EXCEPT !.args = <<t>>]
TStruct(name, keys, args) ==
    [Type("struct") EXCEPT !.name = name, !.keys = keys, !.args = args]
\* an enum of unit variants, by their names
TEnum(name, variants) == [Type("enum") EXCEPT !.name = name, !.keys = variants]
\* a tuple of the given element types
TTuple(args) == [Type("tuple") EXCEPT !.args = args]
\* BTreeMap<String, t>
TMap(t) == [Type("map") EXCEPT !.args = <<t>>]

MaxFields == 2
MaxItems == 2

SampleTexts == {<<>>, <<"a">>, <<"<", " ">>, <<"&", "\"">>}
SampleNums == {7}

\* the fields a struct of the callers is made of
FieldMenu ==
    << [key |-> <<"n">>, ty |-> TStr],
       [key |-> <<"o">>, ty |-> TOption(TStr)],
       [key |-> <<"@", "a">>, ty |-> TStr],
       [key |-> <<"@", "b">>, ty |-> TOption(TStr)],
       [key |-> VALUE_KEY, ty |-> TOption(TStr)],
       [key |-> TEXT_KEY, ty |-> TStr],
       [key |-> <<"e">>, ty |-> TEnum(<<"E">>, << <<"A">>, <<"B">> >>)],
       [key |-> <<"k">>, ty |-> TU8],
       [key |-> <<"f">>, ty |-> TBool],
       [key |-> <<"x">>, ty |-> TSeq(TU8)],
       [key |-> <<"c">>, ty |-> TStruct(<<"C">>, << <<"m">> >>, <<TBool>>)] >>

\* the sequences of at most n distinct elements of a set
RECURSIVE Arrangements(_, _)
Arrangements(set, n) ==
    IF n = 0 THEN {<<>>}
    ELSE LET shorter == Arrangements(set, n - 1)
             longer == {Append(q, e) : q \in shorter, e \in set}
         IN shorter \cup
            {q \in longer : \A i \in 1..(Len(q) - 1) : q[i] # q[Len(q)]}

\* struct S with the chosen fields of the menu, in the chosen order
StructType(idxs) ==
    TStruct(<<"S">>, [i \in 1..Len(idxs) |-> FieldMenu[idxs[i]].key],
                     [i \in 1..Len(idxs) |-> FieldMenu[idxs[i]].ty])

StructTypes == {StructType(idxs) : idxs \in Arrangements(1..Len(FieldMenu), MaxFields)}

\* the sequences of at most n elements of a set
RECURSIVE SeqsOf(_, _)
SeqsOf(set, n) ==
    IF n = 0 THEN {<<>>}
    ELSE LET shorter == SeqsOf(set, n - 1)
         IN shorter \cup {Append(q, e) : q \in shorter, e \in set}

\* the keys of the maps of the callers
SampleKeys == {<<"p">>}

\* the values of a type
RECURSIVE ValuesOf(_)
RECURSIVE Products(_)
ValuesOf(t) ==
    CASE t.kind = "str"    -> {VStr(text) : text \in SampleTexts}
      [] t.kind = "u8"     -> {VU8(n) : n \in SampleNums}
      [] t.kind = "bool"   -> {VBool(TRUE), VBool(FALSE)}
      [] t.kind = "option" -> {VNone} \cup {VSome(v) : v \in ValuesOf(t.args[1])}
      [] t.kind = "seq"    -> {VSeq(items) : items \in SeqsOf(ValuesOf(t.args[1]), MaxItems)}
      [] t.kind = "enum"   -> {VVariant(t.keys[i]) : i \in 1..Len(t.keys)}
      [] t.kind = "tuple"  -> {VTuple(items) : items \in Products(t.args)}
      [] t.kind = "map"    -> {VMap(<<>>, <<>>)}
                              \cup {VMap(<<k>>, <<v>>) : k \in SampleKeys,
                                                        v \in ValuesOf(t.args[1])}
      [] OTHER             -> {VStruct(t.name, t.keys, items) : items \in Products(t.args)}
Products(types) ==
    IF types = <<>> THEN {<<>>}
    ELSE {<<v>> \o rest : v \in ValuesOf(Head(types)), rest \in Products(Tail(types))}

\* ------------------------------------------------------------------------
\* A caller of to_string on a struct: serialize_struct, one serialize_field
\* per field, end (ser.rs, derived Serialize)
\* ------------------------------------------------------------------------

SerInit ==
    /\ ty \in StructTypes
    /\ ser_value \in ValuesOf(ty)
    /\ struct_ser = None
    /\ ser_next = 0
    /\ ser_result = None
    /\ ReaderIdle
    /\ EscapeIdle
    /\ WriterIdle
    /\ DeIdle

\* serializer.serialize_struct(name, len) on a new Serializer
SerializeStruct ==
    /\ ser_result = None
    /\ ser_next = 0
    /\ struct_ser' = Some(serialize_struct(SerializerNew, ser_value.name))
    /\ ser_next' = 1
    /\ UNCHANGED <<ty, ser_value, ser_result, tokenizerVars, escapeVars, writerVars, deVars>>

\* state.serialize_field(key, &self.field)?
SerializeField ==
    /\ ser_result = None
    /\ ser_next \in 1..Len(ser_value.keys)
    /\ LET res == serialize_field(Unwrap(struct_ser), ser_value.keys[ser_next],
                                  ser_value.items[ser_next])
       IN /\ struct_ser' = Some(res.st)
          /\ ser_next' = ser_next + 1
          /\ ser_result' = IF res.ok THEN None
                           ELSE Some([ok |-> FALSE, str |-> <<>>, err |-> res.err])
    /\ UNCHANGED <<ty, ser_value, tokenizerVars, escapeVars, writerVars, deVars>>

\* state.end(), then serializer.into_string()
SerializeEnd ==
    /\ ser_result = None
    /\ ser_next = Len(ser_value.keys) + 1
    /\ LET s == StructSerializer_end(Unwrap(struct_ser))
       IN /\ struct_ser' = Some([Unwrap(struct_ser) EXCEPT !.ser = s])
          /\ ser_result' = Some([ok |-> TRUE, str |-> s.output, err |-> None])
    /\ UNCHANGED <<ty, ser_value, ser_next, tokenizerVars, escapeVars, writerVars, deVars>>

SerNext == SerializeStruct \/ SerializeField \/ SerializeEnd

SpecSerialize == SerInit /\ [][SerNext]_vars

\* to_string has returned Ok
Serialized == ser_result # None /\ Unwrap(ser_result).ok

IsAttrKey(key) == key # <<>> /\ Head(key) = "@"
IsTextKey(key) == key = VALUE_KEY \/ key = TEXT_KEY
IsChildKey(key) == ~IsAttrKey(key) /\ ~IsTextKey(key)

\* the attributes of the first tag of a document, read back by the tokenizer
OpeningTagAttributes(xml) ==
    With(next_event(XmlReader(xml)).ev, LAMBDA ev :
        IF ev.type \in {"StartElement", "EmptyElement"} THEN ev.attributes ELSE <<>>)

\* C2: when an attribute field is visited after a child field, every
\* attribute field of the struct is still written on the opening tag
C2_AttributeAfterChildIsWritten ==
    (/\ Serialized
     /\ \E i, j \in 1..Len(ser_value.keys) :
            i < j /\ IsChildKey(ser_value.keys[i]) /\ IsAttrKey(ser_value.keys[j]))
    => \A j \in 1..Len(ser_value.keys) :
          IsAttrKey(ser_value.keys[j]) =>
             \E k \in 1..Len(OpeningTagAttributes(Unwrap(ser_result).str)) :
                OpeningTagAttributes(Unwrap(ser_result).str)[k].name
                    = Tail(ser_value.keys[j])

\* the struct value without its i-th field
WithoutField(v, i) ==
    [v EXCEPT !.keys = SubSeq(@, 1, i - 1) \o SubSeq(@, i + 1, Len(@)),
              !.items = SubSeq(@, 1, i - 1) \o SubSeq(@, i + 1, Len(@))]

\* C3: a None field (child, attribute or $value) contributes zero bytes: the
\* output equals that of the same struct without the field, and no key is
\* left pending
C3_NoneFieldWritesNothing ==
    /\ struct_ser # None => Unwrap(struct_ser).ser.current_key = None
    /\ Serialized =>
          \A i \in 1..Len(ser_value.keys) :
             ser_value.items[i].kind = "none" =>
                Unwrap(ser_result).str = to_string(WithoutField(ser_value, i)).str

\* ------------------------------------------------------------------------
\* A caller of from_str on a struct type: deserialize_struct, then the derived
\* visitor asking for keys and values, then the end of deserialize_map
\* (de.rs, tests with #[derive(Deserialize)])
\* ------------------------------------------------------------------------

MaxChildren == 3

\* a child of the root element: its tag name (empty for a text node), its
\* XML text and the text directly inside it
Child(name, xml, text) == [name |-> name, xml |-> xml, text |-> text]

ChildMenu ==
    { Child(<<"x">>, <<"<", "x", ">", "1", "<", "/", "x", ">">>, <<"1">>),
      Child(<<"x">>, <<"<", "x", ">", "2", "<", "/", "x", ">">>, <<"2">>),
      Child(<<"y">>, <<"<", "y", ">", "3", "<", "/", "y", ">">>, <<"3">>),
      Child(<<"x">>, <<"<", "x", ">", "<", "z", "/", ">", "<", "/", "x", ">">>, <<>>),
      Child(<<>>, <<"t">>, <<"t">>) }

AttributeLists ==
    { <<>>,
      <<Attribute(<<"a">>, <<"1">>)>>,
      <<Attribute(<<"b">>, <<"2">>), Attribute(<<"a">>, <<"1">>)>> }

\* the documents: a root element S with attributes and children, written
\* `<S .../>` or `<S ...>children</S>`
Documents ==
    {[attrs |-> a, children |-> c, empty |-> FALSE] :
        a \in AttributeLists, c \in SeqsOf(ChildMenu, MaxChildren)}
    \cup {[attrs |-> a, children |-> <<>>, empty |-> TRUE] : a \in AttributeLists}

RECURSIVE RenderAttributes(_)
RenderAttributes(attrs) ==
    IF attrs = <<>> THEN <<>>
    ELSE ((((<<" ">> \o Head(attrs).name) \o <<"=", "\"">>) \o Head(attrs).value)
             \o <<"\"">>) \o RenderAttributes(Tail(attrs))

RECURSIVE RenderChildren(_)
RenderChildren(children) ==
    IF children = <<>> THEN <<>>
    ELSE Head(children).xml \o RenderChildren(Tail(children))

Render(d) ==
    IF d.empty THEN (<<"<", "S">> \o RenderAttributes(d.attrs)) \o <<"/", ">">>
    ELSE (((<<"<", "S">> \o RenderAttributes(d.attrs)) \o <<">">>)
             \o RenderChildren(d.children)) \o <<"<", "/", "S", ">">>

\* the struct types the documents are read into
DeTypes ==
    { TStruct(<<"S">>, << <<"x">> >>, <<TSeq(TU8)>>),
      TStruct(<<"S">>, << <<"x">>, <<"y">> >>, <<TSeq(TStr), TOption(TStr)>>),
      TStruct(<<"S">>, << <<"@", "a">>, <<"@", "b">>, <<"x">> >>,
              <<TStr, TOption(TStr), TOption(TStr)>>) }

DeInit ==
    /\ ty \in DeTypes
    /\ doc \in Documents
    /\ prolog = <<>>
    /\ de = DeserializerFromStr(Render(doc))
    /\ map_de = None
    /\ de_pc = "start"
    /\ de_got = <<>>
    /\ de_log = <<>>
    /\ de_result = None
    /\ ser_value = <<>> /\ struct_ser = <<>> /\ ser_next = 0 /\ ser_result = <<>>
    /\ ReaderIdle
    /\ EscapeIdle
    /\ WriterIdle

\* an operation of the deserializer has failed: from_str returns the error
DeFailed(res) ==
    /\ de' = res.d
    /\ de_pc' = "done"
    /\ de_result' = Some([ok |-> FALSE, val |-> <<>>, err |-> res.err])

\* deserializer.deserialize_struct(name, fields, visitor) up to visit_map
DeserializeStruct ==
    /\ de_pc = "start"
    /\ LET a == map_access(de)
       IN IF a.ok
          THEN /\ de' = a.d
               /\ map_de' = Some(a.m)
               /\ de_got' = NoFields(ty)
               /\ de_pc' = "key"
               /\ UNCHANGED de_result
          ELSE DeFailed(a) /\ UNCHANGED <<map_de, de_got, writerVars>>
    /\ UNCHANGED <<doc, prolog, de_log, serVars, tokenizerVars, escapeVars, writerVars>>

\* map.next_key()? in the derived visit_map
NextKey ==
    /\ de_pc = "key"
    /\ LET k == next_key_seed(de, Unwrap(map_de))
       IN IF k.ok
          THEN /\ de' = k.d
               /\ map_de' = Some(k.m)
               /\ de_pc' = IF k.val = None THEN "end" ELSE "value"
               /\ de_log' = IF k.val = None THEN de_log
                            ELSE Append(de_log, [key |-> Unwrap(k.val), val |-> None])
               /\ UNCHANGED de_result
          ELSE DeFailed(k) /\ UNCHANGED <<map_de, de_log, writerVars>>
    /\ UNCHANGED <<doc, prolog, de_got, serVars, tokenizerVars, escapeVars, writerVars>>

\* the value read for the last key yielded, None for an ignored field
ValueRead(got, key) ==
    IF FieldIndex(ty, key) = 0 THEN None ELSE got[FieldIndex(ty, key)]

\* map.next_value()? in the derived visit_map, for the key just yielded
NextValue ==
    /\ de_pc = "value"
    /\ LET key == de_log[Len(de_log)].key
           v == visit_map_value(de, Unwrap(map_de), ty, de_got, key)
       IN IF v.ok
          THEN /\ de' = v.d
               /\ map_de' = Some(v.m)
               /\ de_got' = v.got
               /\ de_log' = [de_log EXCEPT ![Len(de_log)].val = ValueRead(v.got, key)]
               /\ de_pc' = "key"
               /\ UNCHANGED de_result
          ELSE DeFailed(v) /\ UNCHANGED <<map_de, de_got, de_log, writerVars>>
    /\ UNCHANGED <<doc, prolog, serVars, tokenizerVars, escapeVars, writerVars>>

\* the end of deserialize_map around the value the visitor returns
finish_map(d, m, t, got) ==
    ThenDe(visit_map_end(d, t, got), LAMBDA v :
        IF ~m.is_empty THEN consume_remaining(v.d, v.val) ELSE v)

\* the visitor returns its struct and deserialize_map consumes the rest
FinishStruct ==
    /\ de_pc = "end"
    /\ LET r == finish_map(de, Unwrap(map_de), ty, de_got)
       IN /\ de' = r.d
          /\ de_pc' = "done"
          /\ de_result' = Some([ok |-> r.ok, val |-> r.val, err |-> r.err])
    /\ UNCHANGED <<doc, prolog, map_de, de_got, de_log, serVars, tokenizerVars, escapeVars, writerVars>>

DeNext == DeserializeStruct \/ NextKey \/ NextValue \/ FinishStruct

SpecDeserialize == DeInit /\ [][DeNext]_vars

\* the text a string value, or the string inside Some, was read from
TextOf(v) == IF v.kind = "some" THEN v.items[1].text ELSE v.text

\* C10: the keys of a struct are the element's attributes first, as `@name`
\* in document order and each with its attribute value, then the child and
\* `$value` keys; an empty element has no key after its attributes
C10_AttributesBeforeChildren ==
    /\ \A i \in 1..Len(de_log) :
          IF i <= Len(doc.attrs)
          THEN /\ de_log[i].key = <<"@">> \o doc.attrs[i].name
               /\ de_log[i].val # None
                     => TextOf(Unwrap(de_log[i].val)) = doc.attrs[i].value
          ELSE /\ ~IsAttrKey(de_log[i].key)
               /\ ~doc.empty
    /\ de_pc = "end" => Len(de_log) >= Len(doc.attrs)

\* both attributes, in b, a order, have been read into their fields and the
\* child x has been offered after them
C10_Witness ==
    /\ de_pc = "end"
    /\ Len(doc.attrs) = 2
    /\ Len(de_log) = 3
    /\ de_log[1].key = <<"@", "b">>
    /\ de_log[1].val # None
    /\ de_log[2].val # None
    /\ de_log[3].key = <<"x">>

\* the number of children at the front of a list that carry a tag name
RECURSIVE RunLength(_, _)
RunLength(children, name) ==
    IF children = <<>> \/ Head(children).name # name THEN 0
    ELSE 1 + RunLength(Tail(children), name)

\* an item of a sequence is the value of the text it was read from
ItemMatches(item, text) ==
    IF item.kind = "u8" THEN Some(item.num) = parse_u8(text) ELSE item.text = text

IsSeqField(t, key) == FieldIndex(t, key) # 0 /\ t.args[FieldIndex(t, key)].kind = "seq"

\* C8: in an element whose children are all elements and whose first child
\* starts a sequence field, the sequence is the run of children with that tag
\* name, in document order, and the next key is the sibling after the run
C8_SequenceIsRunOfSameNamedSiblings ==
    (/\ Len(de_log) >= 1
     /\ doc.attrs = <<>>
     /\ \A j \in 1..Len(doc.children) : doc.children[j].name # <<>>
     /\ IsSeqField(ty, de_log[1].key)
     /\ de_log[1].val # None)
    => With(RunLength(doc.children, de_log[1].key), LAMBDA run :
          /\ Len(Unwrap(de_log[1].val).items) = run
          /\ \A j \in 1..run :
                ItemMatches(Unwrap(de_log[1].val).items[j], doc.children[j].text)
          /\ Len(de_log) > 1 =>
                /\ run < Len(doc.children)
                /\ de_log[2].key = doc.children[run + 1].name
          /\ (de_pc = "end" /\ Len(de_log) = 1) => run = Len(doc.children))

\* ------------------------------------------------------------------------
\* A caller of to_string and then from_str on the output (lib.rs,
\* test_roundtrip_simple)
\* ------------------------------------------------------------------------

RoundTripInit ==
    /\ ty \in StructTypes
    /\ ser_value \in ValuesOf(ty)
    /\ struct_ser = None
    /\ ser_next = 0
    /\ ser_result = None
    /\ ReaderIdle
    /\ EscapeIdle
    /\ WriterIdle
    /\ DeIdle

\* let xml = to_string(&value)
CallToString ==
    /\ ser_result = None
    /\ ser_result' = Some(to_string(ser_value))
    /\ UNCHANGED <<ty, ser_value, struct_ser, ser_next, tokenizerVars, escapeVars, writerVars, deVars>>

\* let back: T = from_str(&xml)
CallFromStr ==
    /\ Serialized
    /\ de_result = None
    /\ \E r \in {from_str(ty, Unwrap(ser_result).str)} :
          de_result' = Some([ok |-> r.ok, val |-> r.val, err |-> r.err])
    /\ UNCHANGED <<doc, prolog, de, map_de, de_pc, de_got, de_log, serVars, tokenizerVars,
                   escapeVars, writerVars>>

RoundTripNext == CallToString \/ CallFromStr

SpecRoundTrip == RoundTripInit /\ [][RoundTripNext]_vars

\* C1: from_str(to_string(v)) succeeds and returns a value equal to v
C1_RoundTrip ==
    de_result # None
    => /\ Unwrap(de_result).ok
       /\ Unwrap(de_result).val = ser_value

\* ` name="value"` for each attribute field of a struct, in field order
RECURSIVE AttributeFieldsText(_, _)
AttributeFieldsText(keys, items) ==
    IF keys = <<>> THEN <<>>
    ELSE (IF IsAttrKey(Head(keys))
          THEN (((<<" ">> \o Tail(Head(keys))) \o <<"=", "\"">>)
                   \o escape(TextOf(Head(items))).str) \o <<"\"">>
          ELSE <<>>) \o AttributeFieldsText(Tail(keys), Tail(items))

\* the escaped text of the text fields of a struct
RECURSIVE TextFieldsText(_, _)
TextFieldsText(keys, items) ==
    IF keys = <<>> THEN <<>>
    ELSE (IF IsTextKey(Head(keys)) THEN escape(TextOf(Head(items))).str ELSE <<>>)
            \o TextFieldsText(Tail(keys), Tail(items))

\* a struct of attribute and text fields only, with at most one text field
\* and every field holding a value
NoChildFields(v) ==
    /\ \A i \in 1..Len(v.keys) : ~IsChildKey(v.keys[i]) /\ v.items[i].kind # "none"
    /\ \A i, j \in 1..Len(v.keys) : (IsTextKey(v.keys[i]) /\ IsTextKey(v.keys[j])) => i = j

\* C11: a struct without child fields is written `<name/>` with neither
\* attributes nor text, `<name a="v".../>` with attributes only, and
\* `<name a="v"...>text</name>` with a `$value` or `$text` field
C11_StructWithoutChildrenForms ==
    (Serialized /\ NoChildFields(ser_value))
    => Unwrap(ser_result).str =
          IF \E i \in 1..Len(ser_value.keys) : IsTextKey(ser_value.keys[i])
          THEN ((((<<"<">> \o ser_value.name)
                     \o AttributeFieldsText(ser_value.keys, ser_value.items)) \o <<">">>)
                   \o TextFieldsText(ser_value.keys, ser_value.items))
                 \o ((<<"<", "/">> \o ser_value.name) \o <<">">>)
          ELSE ((<<"<">> \o ser_value.name)
                   \o AttributeFieldsText(ser_value.keys, ser_value.items)) \o <<"/", ">">>

\* `<S a="a">a</S>` has been written for a struct with `@a` and `$text`
C11_Witness ==
    /\ Serialized
    /\ ser_value.keys = << <<"@", "a">>, TEXT_KEY >>
    /\ Unwrap(ser_result).str
          = <<"<", "S", " ", "a", "=", "\"", "a", "\"", ">", "a", "<", "/", "S", ">">>

\* ------------------------------------------------------------------------
\* A caller that pulls events from an XmlReader over inputs with malformed
\* tags, attribute values, entities and bytes
\* ------------------------------------------------------------------------

MaxErrorFrags == 3

ErrorFragments ==
    { <<"<", "a">>, <<"<", "a", " ", "b", "=", "\"">>, <<"\"">>, <<">">>, <<"/", ">">>,
      <<"<", "/", "a", ">">>, <<"t">>, <<"&", "x", ";">>, <<"&", "l", "t", ";">>,
      <<"xFF">>, <<"\n">>, <<"<", "1">>, <<"<", "!", "-", "-">>, <<"-", "-", ">">>,
      <<"<", "?", "p", " ">>, <<"?", ">">>, <<"<", "!">> }

ReaderErrorInputs == Concatenations(ErrorFragments, MaxErrorFrags)

ReaderErrorsInit ==
    /\ \E bytes \in ReaderErrorInputs : input = bytes
    /\ pos = XmlReader(input).pos
    /\ line = XmlReader(input).line
    /\ col = XmlReader(input).col
    /\ element_stack = XmlReader(input).element_stack
    /\ calls = <<>>
    /\ EscapeIdle
    /\ WriterIdle
    /\ SerIdle
    /\ DeIdle

SpecReaderErrors == ReaderErrorsInit /\ [][ReaderNext]_vars

\* the reader as the i-th call left it
ReaderAfter(i) == IF i < Len(calls) THEN calls[i + 1].before ELSE TheReader

\* C12: every error returned by next_event carries a position, which is the
\* reader's line, column and offset where the error was detected
C12_ErrorsCarryPosition ==
    \A i \in DOMAIN calls :
        calls[i].ev.type = "Err"
        => /\ calls[i].ev.position # None
           /\ Unwrap(calls[i].ev.position) = position(ReaderAfter(i))

ReaderErrorKinds ==
    {"Syntax", "UnexpectedEof", "InvalidName", "MismatchedTag", "UnclosedTag",
     "InvalidUtf8"}

\* C13: every error returned by next_event is of kind Syntax, UnexpectedEof,
\* InvalidName, MismatchedTag, UnclosedTag or InvalidUtf8
C13_ReaderErrorKinds ==
    \A i \in DOMAIN calls :
        calls[i].ev.type = "Err" => calls[i].ev.kind \in ReaderErrorKinds

\* C13 as amended: every error returned by next_event is of one of those six
\* kinds or of kind InvalidEscape, which text and attribute values with an
\* unknown or unterminated entity produce
C13_ReaderErrorKindsWithInvalidEscape ==
    \A i \in DOMAIN calls :
        calls[i].ev.type = "Err"
        => calls[i].ev.kind \in ReaderErrorKinds \cup {"InvalidEscape"}

\* an attribute value holding an unknown entity has been rejected
C13_Witness ==
    \E i \in DOMAIN calls :
        /\ calls[i].ev.type = "Err"
        /\ calls[i].ev.kind = "InvalidEscape"
        /\ calls[i].before.input
              = <<"<", "a", " ", "b", "=", "\"", "&", "x", ";", "\"">>

\* ------------------------------------------------------------------------
\* A caller of from_str on a document with an XML declaration, a comment or a
\* processing instruction in front of the root element
\* ------------------------------------------------------------------------

Prologs ==
    { <<"<", "?", "x", "m", "l", " ", "v", "e", "r", "s", "i", "o", "n", "=",
        "\"", "1", ".", "0", "\"", "?", ">">>,
      <<"<", "!", "-", "-", "c", "-", "-", ">">>,
      <<"<", "?", "p", " ", "d", "?", ">">> }

PrologInit ==
    /\ ty \in DeTypes
    /\ doc \in Documents
    /\ prolog \in Prologs
    /\ de = <<>> /\ map_de = <<>> /\ de_pc = "idle"
    /\ de_got = <<>> /\ de_log = <<>> /\ de_result = None
    /\ ser_value = <<>> /\ struct_ser = <<>> /\ ser_next = 0 /\ ser_result = <<>>
    /\ ReaderIdle
    /\ EscapeIdle
    /\ WriterIdle

\* Result<T> of from_str without the deserializer
Returns(r) == [ok |-> r.ok, val |-> r.val, err |-> r.err]

\* from_str(&xml) on the document with its prolog
CallFromStrWithProlog ==
    /\ de_result = None
    /\ de_result' = Some(Returns(from_str(ty, prolog \o Render(doc))))
    /\ UNCHANGED <<doc, prolog, de, map_de, de_pc, de_got, de_log, serVars,
                   tokenizerVars, escapeVars, writerVars>>

PrologNext == CallFromStrWithProlog

SpecProlog == PrologInit /\ [][PrologNext]_vars

\* C14: a document that deserializes to a struct value deserializes to the
\* same value with an XML declaration, a comment or a processing instruction
\* in front of its root element
C14_PrologIsSkipped ==
    (de_result # None /\ prolog # <<>> /\ from_str(ty, Render(doc)).ok)
    => /\ Unwrap(de_result).ok
       /\ Unwrap(de_result).val = from_str(ty, Render(doc)).val

\* a struct value or struct type with its `$text` field named `$value`, and
\* the other way round
WithKeyRenamed(v, from, to) ==
    [v EXCEPT !.keys = [i \in 1..Len(@) |-> IF @[i] = from THEN to ELSE @[i]]]

HasKey(v, key) == \E i \in 1..Len(v.keys) : v.keys[i] = key

\* C15: a field named `$text` is the element's text exactly like `$value`:
\* to_string writes the same output as for the struct with the field named
\* `$value`, and from_str of that output returns what it returns for that
\* struct, with the text in the `$text` field
C15_TextKeyLikeValueKey ==
    (/\ de_result # None
     /\ HasKey(ser_value, TEXT_KEY)
     /\ ~HasKey(ser_value, VALUE_KEY))
    => /\ Unwrap(ser_result).str
             = to_string(WithKeyRenamed(ser_value, TEXT_KEY, VALUE_KEY)).str
       /\ With(from_str(WithKeyRenamed(ty, TEXT_KEY, VALUE_KEY), Unwrap(ser_result).str),
               LAMBDA r :
                  /\ Unwrap(de_result).ok = r.ok
                  /\ r.ok => Unwrap(de_result).val
                                = WithKeyRenamed(r.val, VALUE_KEY, TEXT_KEY))

\* a text occurs in another as a contiguous run
Contains(text, part) ==
    \E k \in 0..(Len(text) - Len(part)) : Slice(text, k, k + Len(part)) = part

\* every field of the struct is a child element holding a unit variant
VariantFields(v) ==
    /\ v.keys # <<>>
    /\ \A i \in 1..Len(v.keys) : IsChildKey(v.keys[i]) /\ v.items[i].kind = "variant"

\* C16: a struct field holding a unit variant is written
\* `<field>VariantName</field>`, and from_str of the output returns the
\* struct with the same variant in the field
C16_UnitVariantFieldRoundTrip ==
    (de_result # None /\ VariantFields(ser_value))
    => /\ \A i \in 1..Len(ser_value.keys) :
             Contains(Unwrap(ser_result).str,
                      ((((<<"<">> \o ser_value.keys[i]) \o <<">">>)
                           \o ser_value.items[i].name)
                          \o (<<"<", "/">> \o ser_value.keys[i])) \o <<">">>)
       /\ Unwrap(de_result).ok
       /\ Unwrap(de_result).val = ser_value

\* ------------------------------------------------------------------------
\* A caller of from_str on a struct with one bool field, held by a child
\* element or by an attribute (de.rs, test_deserialize_bool)
\* ------------------------------------------------------------------------

MaxBoolText == 3

BoolAlphabet == {"0", "1", "n", "o", "y", "e", "s"}

BoolTexts ==
    Texts(BoolAlphabet, MaxBoolText)
    \cup { <<"t", "r", "u", "e">>, <<"f", "a", "l", "s", "e">>,
           <<"T", "r", "u", "e">>, <<"T", "R", "U", "E">>, <<"F", "a", "l", "s", "e">>,
           <<"Y", "e", "s">>, <<"N", "O">>, <<"t", "r", "u">>, <<"t", "r", "u", "e", "e">> }

\* `<S><f>text</f></S>`
BoolChildDocument(text) ==
    [attrs |-> <<>>,
     children |-> <<Child(<<"f">>, (<<"<", "f", ">">> \o text) \o <<"<", "/", "f", ">">>,
                          text)>>,
     empty |-> FALSE]

\* `<S f="text"/>`
BoolAttributeDocument(text) ==
    [attrs |-> <<Attribute(<<"f">>, text)>>, children |-> <<>>, empty |-> TRUE]

BoolInit ==
    /\ \E text \in BoolTexts :
          \/ /\ ty = TStruct(<<"S">>, << <<"f">> >>, <<TBool>>)
             /\ doc = BoolChildDocument(text)
          \/ /\ ty = TStruct(<<"S">>, << <<"@", "f">> >>, <<TBool>>)
             /\ doc = BoolAttributeDocument(text)
    /\ prolog = <<>>
    /\ de = <<>> /\ map_de = <<>> /\ de_pc = "idle"
    /\ de_got = <<>> /\ de_log = <<>> /\ de_result = None
    /\ ser_value = <<>> /\ struct_ser = <<>> /\ ser_next = 0 /\ ser_result = <<>>
    /\ ReaderIdle
    /\ EscapeIdle
    /\ WriterIdle

SpecBool == BoolInit /\ [][PrologNext]_vars

\* the text the bool field is read from
BoolText == IF doc.attrs # <<>> THEN doc.attrs[1].value ELSE doc.children[1].text

\* C17: a bool is true exactly for the text "true", "1" or "yes", false
\* exactly for "false", "0" or "no", and an InvalidValue error for every other
\* text
C17_BoolTexts ==
    de_result # None
    => IF BoolText \in {<<"t", "r", "u", "e">>, <<"1">>, <<"y", "e", "s">>}
       THEN Unwrap(de_result).ok /\ Unwrap(de_result).val.items = <<VBool(TRUE)>>
       ELSE IF BoolText \in {<<"f", "a", "l", "s", "e">>, <<"0">>, <<"n", "o">>}
       THEN Unwrap(de_result).ok /\ Unwrap(de_result).val.items = <<VBool(FALSE)>>
       ELSE /\ ~Unwrap(de_result).ok
            /\ Unwrap(Unwrap(de_result).err).kind = "InvalidValue"

\* `<S><f>yes</f></S>` has been read as true
C17_Witness ==
    /\ de_result # None
    /\ doc = BoolChildDocument(<<"y", "e", "s">>)
    /\ Unwrap(de_result).ok
    /\ Unwrap(de_result).val.items = <<VBool(TRUE)>>

\* the number of events the deserializer has taken from its reader, the
\* peeked one not counted
Consumed(d) ==
    IF d.peeked # None /\ Unwrap(d.peeked).type # "Eof"
    THEN d.reader.next - 2 ELSE d.reader.next - 1

\* the number of events from the i-th one to the end of what it opens
RECURSIVE SubtreeLength(_, _, _)
SubtreeLength(evs, i, nesting) ==
    IF i > Len(evs) THEN 0
    ELSE IF evs[i].type = "StartElement" THEN 1 + SubtreeLength(evs, i + 1, nesting + 1)
    ELSE IF evs[i].type = "EndElement"
    THEN IF nesting <= 1 THEN 1 ELSE 1 + SubtreeLength(evs, i + 1, nesting - 1)
    ELSE IF nesting = 0 THEN 1 ELSE 1 + SubtreeLength(evs, i + 1, nesting)

\* the value of a key the struct does not know is being read
IgnoringField == de_pc = "value" /\ FieldIndex(ty, Last(de_log).key) = 0

\* C18: reading the value of an unknown field consumes exactly the events of
\* that child, from its start tag to its matching end tag, or its one text
\* event, and no event at all for an attribute
C18_IgnoredFieldConsumesExactlyItself ==
    [][(IgnoringField /\ de_pc' = "key")
          => Consumed(de') = Consumed(de)
                + IF IsAttrKey(Last(de_log).key) THEN 0
                  ELSE SubtreeLength(de.reader.events, Consumed(de) + 1, 0)]_vars

\* ------------------------------------------------------------------------
\* Callers of deserialize_option: Option<String>::deserialize on a
\* deserializer that stands anywhere in its document, and from_str on a
\* struct of Option fields (de.rs, test_deserialize_optional)
\* ------------------------------------------------------------------------

OptionDocuments == {d \in Documents : Len(d.children) <= 1}

OptionStruct ==
    TStruct(<<"S">>, << <<"x">>, <<"y">> >>, <<TOption(TStr), TOption(TStr)>>)

\* pending_value and start_consumed are as earlier calls left them: a pending
\* attribute value, and a start tag taken by a get_text that then failed
OptionInit ==
    /\ ty = OptionStruct
    /\ doc \in OptionDocuments
    /\ prolog = <<>>
    /\ \E pending \in {None, Some(<<"v">>)}, started \in BOOLEAN :
          de = [DeserializerFromStr(Render(doc)) EXCEPT !.pending_value = pending,
                                                        !.start_consumed = started]
    /\ map_de = <<>> /\ de_pc = "start"
    /\ de_got = <<>> /\ de_log = <<>> /\ de_result = None
    /\ ser_value = <<>> /\ struct_ser = <<>> /\ ser_next = 0 /\ ser_result = <<>>
    /\ ReaderIdle
    /\ EscapeIdle
    /\ WriterIdle

\* the event the deserializer will see next
UpcomingEvent(d) ==
    IF d.peeked # None THEN Unwrap(d.peeked) ELSE d.reader.events[d.reader.next]

\* self.next_event()? by whoever reads the document before the Option
TakeEvent ==
    /\ de_pc = "start"
    /\ UpcomingEvent(de).type \notin {"Eof", "Err"}
    /\ de' = de_next_event(de).d
    /\ UNCHANGED <<doc, prolog, map_de, de_pc, de_got, de_log, de_result, serVars,
                   tokenizerVars, escapeVars, writerVars>>

\* Option::<String>::deserialize(&mut de)
DeserializeOption ==
    /\ de_pc = "start"
    /\ \E r \in {deserialize_option(de, TStr)} :
          /\ de' = r.d
          /\ de_result' = Some(Returns(r))
    /\ de_pc' = "option"
    /\ UNCHANGED <<doc, prolog, map_de, de_got, de_log, serVars, tokenizerVars,
                   escapeVars, writerVars>>

\* from_str::<S>(&xml) on the untouched document
CallFromStrStruct ==
    /\ de_pc = "start"
    /\ de = DeserializerFromStr(Render(doc))
    /\ de_result' = Some(Returns(from_str(ty, Render(doc))))
    /\ de_pc' = "done"
    /\ UNCHANGED <<doc, prolog, de, map_de, de_got, de_log, serVars, tokenizerVars,
                   escapeVars, writerVars>>

OptionNext == TakeEvent \/ DeserializeOption \/ CallFromStrStruct

SpecOption == OptionInit /\ [][OptionNext]_vars

\* nothing is pending, no start tag is marked consumed and the next event is
\* an end tag or the end of input
OptionAbsent(d) ==
    /\ d.pending_value = None
    /\ ~d.start_consumed
    /\ UpcomingEvent(d).type \in {"EndElement", "Eof"}

HasChildNamed(d, name) == \E j \in 1..Len(d.children) : d.children[j].name = name

\* C19: deserialize_option returns None exactly when nothing is pending, no
\* start tag is marked consumed and the next event is an end tag or the end
\* of input, and it then consumes no event; a struct read from a document
\* without the element of an Option field has None in that field
C19_OptionAbsence ==
    [][/\ (de_pc = "start" /\ de_pc' = "option")
          => /\ (Unwrap(de_result').ok /\ Unwrap(de_result').val = VNone)
                   <=> OptionAbsent(de)
             /\ OptionAbsent(de)
                   => /\ Consumed(de') = Consumed(de)
                      /\ UpcomingEvent(de') = UpcomingEvent(de)
       /\ (de_pc = "start" /\ de_pc' = "done" /\ Unwrap(de_result').ok)
          => \A i \in 1..Len(ty.keys) :
                ~HasChildNamed(doc, ty.keys[i])
                   => Unwrap(de_result').val.items[i] = VNone]_vars

\* after the start tag of `<S a="1"></S>` was taken, the Option was read as
\* None with the end tag still to come
C19_Witness ==
    /\ de_pc = "option"
    /\ Unwrap(de_result).ok
    /\ Unwrap(de_result).val = VNone
    /\ Consumed(de) = 1
    /\ UpcomingEvent(de).type = "EndElement"
    /\ Len(doc.attrs) = 1

\* the text of a primitive value
PrimitiveText(v) ==
    CASE v.kind = "str" -> v.text
      [] v.kind = "u8" -> itoa(v.num)
      [] v.kind = "bool" -> IF v.flag THEN <<"t", "r", "u", "e">>
                            ELSE <<"f", "a", "l", "s", "e">>

\* the field that serialize_field is given next
NextKeyToSerialize == ser_value.keys[ser_next]
NextItemToSerialize == ser_value.items[ser_next]

\* C20: a primitive serialized while current_key is Some(k) appends exactly
\* `<k>` escape(text) `</k>` and leaves current_key empty; serialized with no
\* key, as the `$text` of a struct is, it gives escape(text) without tags
C20_PrimitiveUnderKey ==
    [][(/\ ser_next \in 1..Len(ser_value.keys)
        /\ ser_next' = ser_next + 1
        /\ NextItemToSerialize.kind \in {"str", "u8", "bool"})
       => /\ IsChildKey(NextKeyToSerialize)
             => /\ Unwrap(struct_ser').ser.output
                      = ensure_started(Unwrap(struct_ser)).ser.output
                        \o (((((<<"<">> \o NextKeyToSerialize) \o <<">">>)
                                \o escape(PrimitiveText(NextItemToSerialize)).str)
                               \o (<<"<", "/">> \o NextKeyToSerialize)) \o <<">">>)
                /\ Unwrap(struct_ser').ser.current_key = None
          /\ IsTextKey(NextKeyToSerialize)
             => Unwrap(struct_ser').text_content
                   = Some(escape(PrimitiveText(NextItemToSerialize)).str)]_vars

\* `<n>&lt; </n>` has been appended after the start tag of S
C20_Witness ==
    /\ struct_ser # None
    /\ ser_next = 2
    /\ ser_value.keys[1] = <<"n">>
    /\ Unwrap(struct_ser).ser.output
          = <<"<", "S", ">", "<", "n", ">", "&", "l", "t", ";", " ", "<", "/", "n", ">">>

\* ------------------------------------------------------------------------
\* A caller of to_string on a struct with composite values in attribute
\* position (ser.rs, StructSerializer::serialize_field with an `@` key)
\* ------------------------------------------------------------------------

\* the fields of such a struct
AttrFieldMenu ==
    << [key |-> <<"@", "a">>, ty |-> TStr],
       [key |-> <<"@", "s">>, ty |-> TSeq(TU8)],
       [key |-> <<"@", "t">>, ty |-> TTuple(<<TU8, TBool>>)],
       [key |-> <<"@", "m">>, ty |-> TMap(TU8)],
       [key |-> <<"@", "c">>, ty |-> TStruct(<<"C">>, << <<"m">> >>, <<TBool>>)],
       [key |-> <<"@", "o">>, ty |-> TOption(TSeq(TU8))],
       [key |-> <<"n">>, ty |-> TStr] >>

AttrStructType(idxs) ==
    TStruct(<<"S">>, [i \in 1..Len(idxs) |-> AttrFieldMenu[idxs[i]].key],
                     [i \in 1..Len(idxs) |-> AttrFieldMenu[idxs[i]].ty])

AttrStructTypes ==
    {AttrStructType(idxs) : idxs \in Arrangements(1..Len(AttrFieldMenu), MaxFields)}

AttrCompositeInit ==
    /\ ty \in AttrStructTypes
    /\ ser_value \in ValuesOf(ty)
    /\ struct_ser = None
    /\ ser_next = 0
    /\ ser_result = None
    /\ ReaderIdle
    /\ EscapeIdle
    /\ WriterIdle
    /\ DeIdle

SpecAttrComposite == AttrCompositeInit /\ [][SerNext]_vars

\* the value is a sequence, tuple, map or struct, bare or inside Some
RECURSIVE IsComposite(_)
IsComposite(v) ==
    \/ v.kind \in {"seq", "tuple", "map", "struct"}
    \/ v.kind = "some" /\ IsComposite(v.items[1])

\* serialize_field has been called for the i-th field
FieldSerialized(i) == ser_next > i

\* C21: once an `@` field holding a sequence, tuple, map or struct has been
\* given to serialize_field, to_string has failed with an Unsupported error
\* and no output string; a struct with such a field never yields Ok
C21_CompositeAttributeUnsupported ==
    \A i \in 1..Len(ser_value.keys) :
        (IsAttrKey(ser_value.keys[i]) /\ IsComposite(ser_value.items[i]))
        => /\ FieldSerialized(i)
              => /\ ser_result # None
                 /\ ~Unwrap(ser_result).ok
                 /\ Unwrap(Unwrap(ser_result).err).kind = "Unsupported"
                 /\ Unwrap(ser_result).str = <<>>
           /\ ~Serialized

\* a sequence of two items in the attribute s, after a child field, has been
\* refused
C21_Witness ==
    /\ ser_value.keys = << <<"n">>, <<"@", "s">> >>
    /\ Len(ser_value.items[2].items) = 2
    /\ ser_next = 3
    /\ ser_result # None
    /\ ~Unwrap(ser_result).ok

\* the offset just after the first occurrence of pat in xml at or after
\* offset from (one-based), or 0
RECURSIVE After(_, _, _)
After(xml, pat, from) ==
    IF from + Len(pat) - 1 > Len(xml) THEN 0
    ELSE IF SubSeq(xml, from, from + Len(pat) - 1) = pat THEN from + Len(pat)
    ELSE After(xml, pat, from + 1)

\* the text of xml from offset from up to the next double quote
RECURSIVE UpToQuote(_, _)
UpToQuote(xml, from) ==
    IF from > Len(xml) \/ xml[from] = "\"" THEN <<>>
    ELSE <<xml[from]>> \o UpToQuote(xml, from + 1)

\* the attribute `name` is written in xml
HasRawAttribute(xml, name) == After(xml, (<<" ">> \o name) \o <<"=", "\"">>, 1) # 0

\* the text between the quotes of the attribute `name` in xml
RawAttributeValue(xml, name) ==
    UpToQuote(xml, After(xml, (<<" ">> \o name) \o <<"=", "\"">>, 1))

\* the value of the attribute `name` of the first tag of xml, as read back
ReadAttributeValue(xml, name) ==
    With(OpeningTagAttributes(xml), LAMBDA attrs :
        IF \E k \in 1..Len(attrs) : attrs[k].name = name
        THEN Some(attrs[CHOOSE k \in 1..Len(attrs) : attrs[k].name = name].value)
        ELSE None)

\* the string an `@` field holds, if it holds one
AttributeString(v) ==
    CASE v.kind = "str" -> Some(v.text)
      [] v.kind = "some" /\ v.items[1].kind = "str" -> Some(v.items[1].text)
      [] OTHER -> None

\* C22: for every string s held by an `@` field whose attribute is written,
\* the text between the quotes is escape(s), escaped once, and the tokenizer
\* reads the attribute value s back from the output
C22_AttributeEscapedOnce ==
    Serialized =>
       \A j \in 1..Len(ser_value.keys) :
          (/\ IsAttrKey(ser_value.keys[j])
           /\ AttributeString(ser_value.items[j]) # None
           /\ HasRawAttribute(Unwrap(ser_result).str, Tail(ser_value.keys[j])))
          => /\ RawAttributeValue(Unwrap(ser_result).str, Tail(ser_value.keys[j]))
                  = escape(Unwrap(AttributeString(ser_value.items[j]))).str
             /\ ReadAttributeValue(Unwrap(ser_result).str, Tail(ser_value.keys[j]))
                  = AttributeString(ser_value.items[j])

\* an attribute holding an ampersand and a double quote has been written
C22_Witness ==
    /\ Serialized
    /\ ser_value.keys = << <<"@", "a">> >>
    /\ ser_value.items[1].text = <<"&", "\"">>
    /\ Unwrap(ser_result).str
          = <<"<", "S", " ", "a", "=", "\"", "&", "a", "m", "p", ";",
              "&", "q", "u", "o", "t", ";", "\"", "/", ">">>

\* ------------------------------------------------------------------------
\* A caller of to_string on a sequence, bare or held by the field x of a
\* struct (ser.rs, tests::test_serialize_vector)
\* ------------------------------------------------------------------------

\* the item types of the sequences
ItemTypes ==
    {TStr, TU8, TOption(TStr), TSeq(TU8),
     TStruct(<<"C">>, << <<"m">> >>, <<TBool>>)}

SeqCallerTypes ==
    {TSeq(t) : t \in ItemTypes}
    \cup {TStruct(<<"S">>, << <<"x">> >>, <<TSeq(t)>>) : t \in ItemTypes}

SeqCallerInit ==
    /\ ty \in SeqCallerTypes
    /\ ser_value \in ValuesOf(ty)
    /\ struct_ser = None
    /\ ser_next = 0
    /\ ser_result = None
    /\ ReaderIdle
    /\ EscapeIdle
    /\ WriterIdle
    /\ DeIdle

SpecSequence == SeqCallerInit /\ [][CallToString]_vars

\* the first text event at the i-th event, if it is one
DirectText(evs, i) ==
    IF i <= Len(evs) /\ evs[i].type = "Text" THEN evs[i].text ELSE <<>>

\* name and leading text of the elements that open at the given nesting level
RECURSIVE ElementsAt(_, _, _, _)
ElementsAt(evs, i, nesting, level) ==
    IF i > Len(evs) THEN <<>>
    ELSE IF evs[i].type = "StartElement"
    THEN (IF nesting = level
          THEN <<[name |-> evs[i].name, text |-> DirectText(evs, i + 1)]>>
          ELSE <<>>) \o ElementsAt(evs, i + 1, nesting + 1, level)
    ELSE IF evs[i].type = "EmptyElement"
    THEN (IF nesting = level THEN <<[name |-> evs[i].name, text |-> <<>>]>> ELSE <<>>)
            \o ElementsAt(evs, i + 1, nesting, level)
    ELSE IF evs[i].type = "EndElement" THEN ElementsAt(evs, i + 1, nesting - 1, level)
    ELSE ElementsAt(evs, i + 1, nesting, level)

\* the elements of xml, as the tokenizer reads them, at the given level
ElementsOf(xml, level) == ElementsAt(events_from(XmlReader(xml)), 1, 0, level)

\* the elements stand for the items: as many, all tagged name, and each one
\* of a string or integer item holding that item's text
ElementsMatchItems(elements, items, name) ==
    /\ Len(elements) = Len(items)
    /\ \A i \in 1..Len(elements) :
          /\ elements[i].name = name
          /\ i <= Len(items) /\ items[i].kind = "str"
                => elements[i].text = trim(items[i].text)
          /\ i <= Len(items) /\ items[i].kind = "u8"
                => elements[i].text = itoa(items[i].num)

\* C23: a sequence held by field x is written as one element tagged x per
\* item, in order, directly inside the struct's element; a sequence with no
\* field name is written as one element tagged `item` per item
C23_SequenceItemsAsSiblings ==
    Serialized =>
       IF ser_value.kind = "seq"
       THEN ElementsMatchItems(ElementsOf(Unwrap(ser_result).str, 0),
                               ser_value.items, <<"i", "t", "e", "m">>)
       ELSE ElementsMatchItems(ElementsOf(Unwrap(ser_result).str, 1),
                               ser_value.items[1].items, <<"x">>)

\* the same for the sequences whose items are strings, integers or structs
C23_PlainItemsAsSiblings ==
    (\/ ty.kind = "seq" /\ ty.args[1].kind \in {"str", "u8", "struct"}
     \/ ty.kind = "struct" /\ ty.args[1].args[1].kind \in {"str", "u8", "struct"})
    => C23_SequenceItemsAsSiblings

\* ------------------------------------------------------------------------
\* A caller that builds its own Serializer, with or without
\* with_declaration(), serializes a struct into it and takes into_string()
\* ------------------------------------------------------------------------

\* serializer.serialize_struct(name, len) on Serializer::new().with_declaration()
SerializeStructWithDeclaration ==
    /\ ser_result = None
    /\ ser_next = 0
    /\ struct_ser' = Some(serialize_struct(with_declaration(SerializerNew),
                                           ser_value.name))
    /\ ser_next' = 1
    /\ UNCHANGED <<ty, ser_value, ser_result, tokenizerVars, escapeVars, writerVars, deVars>>

\* state.end(), then serializer.into_string()
IntoString ==
    /\ ser_result = None
    /\ ser_next = Len(ser_value.keys) + 1
    /\ LET s == StructSerializer_end(Unwrap(struct_ser))
       IN /\ struct_ser' = Some([Unwrap(struct_ser) EXCEPT !.ser = s])
          /\ ser_result' = Some([ok |-> TRUE, str |-> into_string(s), err |-> None])
    /\ UNCHANGED <<ty, ser_value, ser_next, tokenizerVars, escapeVars, writerVars, deVars>>

DeclarationNext ==
    SerializeStruct \/ SerializeStructWithDeclaration \/ SerializeField \/ IntoString

SpecDeclaration == SerInit /\ [][DeclarationNext]_vars

XML_DECLARATION_OPEN == <<"<", "?", "x", "m", "l">>

\* the text starts with an XML declaration
StartsWithDeclaration(xml) ==
    /\ Len(xml) >= Len(XML_DECLARATION_OPEN)
    /\ SubSeq(xml, 1, Len(XML_DECLARATION_OPEN)) = XML_DECLARATION_OPEN

\* C24: the output of a Serializer starts with an XML declaration when the
\* Serializer was configured with with_declaration(), and holds none when
\* it was not
C24_DeclarationWhenConfigured ==
    Serialized =>
       (StartsWithDeclaration(Unwrap(ser_result).str)
           <=> Unwrap(struct_ser).ser.include_declaration)

\* a Serializer that was not configured writes no declaration
C24_NoDeclarationUnlessConfigured ==
    (Serialized /\ ~Unwrap(struct_ser).ser.include_declaration)
    => After(Unwrap(ser_result).str, XML_DECLARATION_OPEN, 1) = 0

\* ------------------------------------------------------------------------
\* A caller of to_string_with_root on a struct or a map
\* (ser.rs, tests::test_with_root)
\* ------------------------------------------------------------------------

\* the root names the callers pass
RootNames == {<<"r">>, <<"S">>}

WithRootTypes ==
    {StructType(idxs) : idxs \in Arrangements(1..Len(FieldMenu), 1)}
    \cup {TMap(t) : t \in {TU8, TStr, TOption(TStr), TSeq(TU8), TMap(TU8),
                           TStruct(<<"C">>, << <<"m">> >>, <<TBool>>)}}

WithRootInit ==
    /\ ty \in WithRootTypes
    /\ ser_value \in ValuesOf(ty)
    /\ struct_ser = None
    /\ ser_next = 0
    /\ ser_result = None
    /\ ReaderIdle
    /\ EscapeIdle
    /\ WriterIdle
    /\ DeIdle

\* let xml = to_string_with_root(&value, root); the root is kept with the result
CallToStringWithRoot ==
    /\ ser_result = None
    /\ \E root \in RootNames :
          \E res \in {to_string_with_root(ser_value, root)} :
             ser_result' = Some([ok |-> res.ok, str |-> res.str, err |-> res.err,
                                 root |-> root])
    /\ UNCHANGED <<ty, ser_value, struct_ser, ser_next, tokenizerVars, escapeVars, writerVars, deVars>>

SpecWithRoot == WithRootInit /\ [][CallToStringWithRoot]_vars

\* the document is one element of the given name
OutermostElementIs(xml, name) ==
    With(ElementsOf(xml, 0), LAMBDA elements :
        Len(elements) = 1 /\ elements[1].name = name)

RECURSIVE RunEnd(_, _)
RunEnd(bytes, p) ==
    IF p >= Len(bytes) \/ bytes[p + 1] = "<" THEN p ELSE RunEnd(bytes, p + 1)

\* the input from the reader's offset up to the next tag
RunAt(r) == SubSeq(r.input, r.pos + 1, RunEnd(r.input, r.pos))

WhitespaceOnly(text) == \A i \in 1..Len(text) : IS_WHITESPACE(text[i])

IndentConfigDefault == [indent_str |-> <<" ", " ">>, newlines |-> TRUE]

\* XmlWriter::new
XmlWriterNew ==
    [writer |-> <<>>, element_stack |-> <<>>, in_tag |-> FALSE, indent |-> None,
     level |-> 0, last_was_start |-> FALSE]

\* XmlWriter::with_indent
XmlWriter_with_indent(indent) == [XmlWriterNew EXCEPT !.indent = Some(indent)]

\* XmlWriter::depth
XmlWriter_depth(w) == Len(w.element_stack)

\* io::Result<()> of a writer call, with the writer as it is left
WriterOk(w) == [ok |-> TRUE, w |-> w, err |-> None]
WriterErr(w, kind) == [ok |-> FALSE, w |-> w, err |-> Some(kind)]

\* self.writer.write_all(bytes)
WriteAll(w, bytes) == [w EXCEPT !.writer = @ \o bytes]

close_tag_if_open(w) ==
    IF w.in_tag THEN [WriteAll(w, <<">">>) EXCEPT !.in_tag = FALSE] ELSE w

XmlWriter_write_indent(w) ==
    IF w.indent # None
    THEN WriteAll(IF Unwrap(w.indent).newlines /\ w.level > 0
                  THEN WriteAll(w, <<"\n">>) ELSE w,
                  Repeat(Unwrap(w.indent).indent_str, saturating_sub(w.level, 1)))
    ELSE w

write_escaped(w, text) == WriteAll(w, escape_to_inner(text, <<>>))

XmlWriter_write_declaration(w, version, encoding) ==
    WriterOk(WriteAll(close_tag_if_open(w),
                      (((<<"<", "?", "x", "m", "l", " ">>
                           \o <<"v", "e", "r", "s", "i", "o", "n", "=", "\"">>)
                          \o version) \o <<"\"">>)
                        \o (IF encoding # None
                            THEN (<<" ", "e", "n", "c", "o", "d", "i", "n", "g", "=", "\"">>
                                    \o Unwrap(encoding)) \o <<"\"">>
                            ELSE <<>>)
                        \o <<"?", ">">>))

XmlWriter_start_element(w, name) ==
    WriterOk([WriteAll(XmlWriter_write_indent(close_tag_if_open(w)), <<"<">> \o name)
                 EXCEPT !.element_stack = Append(@, name),
                        !.in_tag = TRUE,
                        !.last_was_start = TRUE,
                        !.level = @ + 1])

\* write_attribute writing the attribute wherever the writer stands
XmlWriter_write_attribute_anywhere(w, name, value) ==
    WriterOk(WriteAll(write_escaped(WriteAll(w, (<<" ">> \o name) \o <<"=", "\"">>),
                                    value),
                      <<"\"">>))

XmlWriter_write_attribute(w, name, value) ==
    IF ~w.in_tag THEN WriterErr(w, "InvalidInput")
    ELSE WriterOk(WriteAll(write_escaped(WriteAll(w, (<<" ">> \o name) \o <<"=", "\"">>),
                                         value),
                           <<"\"">>))

\* end_element leaving the indentation level as it is
XmlWriter_end_element_keeping_level(w) ==
    IF w.element_stack # <<>>
    THEN With([w EXCEPT !.element_stack = SubSeq(@, 1, Len(@) - 1)], LAMBDA popped :
            WriterOk([(IF popped.in_tag
                       THEN [WriteAll(popped, <<"/", ">">>) EXCEPT !.in_tag = FALSE]
                       ELSE WriteAll(IF ~popped.last_was_start
                                     THEN XmlWriter_write_indent(popped) ELSE popped,
                                     (<<"<", "/">> \o w.element_stack[Len(w.element_stack)])
                                        \o <<">">>))
                         EXCEPT !.last_was_start = FALSE]))
    ELSE WriterErr(w, "InvalidInput")

XmlWriter_end_element(w) ==
    IF w.element_stack # <<>>
    THEN With([w EXCEPT !.level = saturating_sub(@, 1),
                        !.element_stack = SubSeq(@, 1, Len(@) - 1)], LAMBDA popped :
            WriterOk([(IF popped.in_tag
                       THEN [WriteAll(popped, <<"/", ">">>) EXCEPT !.in_tag = FALSE]
                       ELSE WriteAll(IF ~popped.last_was_start
                                     THEN XmlWriter_write_indent(popped) ELSE popped,
                                     (<<"<", "/">> \o w.element_stack[Len(w.element_stack)])
                                        \o <<">">>))
                         EXCEPT !.last_was_start = FALSE]))
    ELSE WriterErr([w EXCEPT !.level = saturating_sub(@, 1)], "InvalidInput")

XmlWriter_write_text(w, text) ==
    WriterOk([write_escaped(close_tag_if_open(w), text) EXCEPT !.last_was_start = FALSE])

XmlWriter_write_cdata(w, data) ==
    WriterOk(WriteAll(close_tag_if_open(w),
                      (<<"<", "!", "[", "C", "D", "A", "T", "A", "[">> \o data)
                         \o <<"]", "]", ">">>))

XmlWriter_write_comment(w, comment) ==
    WriterOk(WriteAll(XmlWriter_write_indent(close_tag_if_open(w)),
                      (<<"<", "!", "-", "-", " ">> \o comment) \o <<" ", "-", "-", ">">>))

XmlWriter_write_pi(w, target, data) ==
    WriterOk(WriteAll(XmlWriter_write_indent(close_tag_if_open(w)),
                      ((<<"<", "?">> \o target)
                          \o (IF data # None THEN <<" ">> \o Unwrap(data) ELSE <<>>))
                         \o <<"?", ">">>))

XmlWriter_write_element(w, name, content) ==
    XmlWriter_end_element(
        XmlWriter_write_text(XmlWriter_start_element(w, name).w, content).w)

XmlWriter_write_empty_element(w, name) ==
    WriterOk([WriteAll(XmlWriter_write_indent(close_tag_if_open(w)),
                       (<<"<">> \o name) \o <<"/", ">">>)
                 EXCEPT !.last_was_start = FALSE])

\* ------------------------------------------------------------------------
\* A caller of XmlWriter (writer.rs, tests::test_depth and
\* tests::test_element_with_attributes)
\* ------------------------------------------------------------------------

MaxWriterCalls == 4

WriterNames == {<<"a">>}
WriterTexts == {<<"<", "t">>}

WriterInit ==
    /\ writer \in {XmlWriterNew, XmlWriter_with_indent(IndentConfigDefault)}
    /\ writer_log = <<>>
    /\ ReaderIdle
    /\ EscapeIdle
    /\ SerIdle
    /\ DeIdle

\* the call op has returned res: the writer is as the call left it and the
\* call is kept with the writer it found
Called(op, res) ==
    /\ writer' = res.w
    /\ writer_log' = Append(writer_log, [op |-> op, before |-> writer,
                                         ok |-> res.ok, err |-> res.err])
    /\ UNCHANGED <<tokenizerVars, escapeVars, serVars, deVars>>

WriteDeclaration ==
    /\ Len(writer_log) < MaxWriterCalls
    /\ \E encoding \in {None, Some(<<"U">>)} :
          Called("write_declaration",
                 XmlWriter_write_declaration(writer, <<"1">>, encoding))

StartElementCall ==
    /\ Len(writer_log) < MaxWriterCalls
    /\ \E name \in WriterNames :
          Called("start_element", XmlWriter_start_element(writer, name))

WriteAttribute ==
    /\ Len(writer_log) < MaxWriterCalls
    /\ \E name \in WriterNames, value \in WriterTexts :
          Called("write_attribute", XmlWriter_write_attribute(writer, name, value))

EndElementCall ==
    /\ Len(writer_log) < MaxWriterCalls
    /\ Called("end_element", XmlWriter_end_element(writer))

WriteText ==
    /\ Len(writer_log) < MaxWriterCalls
    /\ \E text \in WriterTexts : Called("write_text", XmlWriter_write_text(writer, text))

WriteCData ==
    /\ Len(writer_log) < MaxWriterCalls
    /\ \E data \in WriterTexts : Called("write_cdata", XmlWriter_write_cdata(writer, data))

WriteComment ==
    /\ Len(writer_log) < MaxWriterCalls
    /\ \E comment \in WriterTexts :
          Called("write_comment", XmlWriter_write_comment(writer, comment))

WritePi ==
    /\ Len(writer_log) < MaxWriterCalls
    /\ \E target \in WriterNames, data \in {None, Some(<<"d">>)} :
          Called("write_pi", XmlWriter_write_pi(writer, target, data))

WriteElement ==
    /\ Len(writer_log) < MaxWriterCalls
    /\ \E name \in WriterNames, content \in WriterTexts :
          Called("write_element", XmlWriter_write_element(writer, name, content))

WriteEmptyElement ==
    /\ Len(writer_log) < MaxWriterCalls
    /\ \E name \in WriterNames :
          Called("write_empty_element", XmlWriter_write_empty_element(writer, name))

WriterNext ==
    \/ WriteDeclaration \/ StartElementCall \/ WriteAttribute \/ EndElementCall
    \/ WriteText \/ WriteCData \/ WriteComment \/ WritePi \/ WriteElement
    \/ WriteEmptyElement

SpecWriter == WriterInit /\ [][WriterNext]_vars

\* the writer as the i-th call left it
WriterAfter(i) == IF i < Len(writer_log) THEN writer_log[i + 1].before ELSE writer

\* before the i-th call, start_element was called and only write_attribute
\* since
OpeningTagOpenBefore(i) ==
    \E j \in 1..(i - 1) :
        /\ writer_log[j].op = "start_element"
        /\ \A k \in (j + 1)..(i - 1) : writer_log[k].op = "write_attribute"

\* C27: write_attribute succeeds exactly when start_element was called and
\* nothing but write_attribute since; otherwise it returns InvalidInput and
\* the sink holds what it held
C27_AttributeOnlyInOpenTag ==
    \A i \in DOMAIN writer_log :
        writer_log[i].op = "write_attribute"
        => /\ writer_log[i].ok <=> OpeningTagOpenBefore(i)
           /\ ~writer_log[i].ok
                 => /\ writer_log[i].err = Some("InvalidInput")
                    /\ WriterAfter(i).writer = writer_log[i].before.writer

\* an attribute has been written after start_element, and one has been
\* refused after the text that closed the opening tag
C27_Witness ==
    /\ Len(writer_log) = 4
    /\ writer_log[1].op = "start_element"
    /\ writer_log[2].op = "write_attribute" /\ writer_log[2].ok
    /\ writer_log[3].op = "write_text"
    /\ writer_log[4].op = "write_attribute" /\ ~writer_log[4].ok

\* the number of calls of op among the first n that returned Ok
RECURSIVE Successful(_, _)
Successful(op, n) ==
    IF n = 0 THEN 0
    ELSE Successful(op, n - 1)
           + IF writer_log[n].op = op /\ writer_log[n].ok THEN 1 ELSE 0

\* C28: depth() is the number of successful start_element calls less the
\* number of successful end_element calls, the indentation level equals
\* depth(), an open tag implies depth() > 0, and end_element with no open
\* element returns an error and leaves depth() at 0
C28_DepthCountsOpenElements ==
    /\ XmlWriter_depth(writer)
          = Successful("start_element", Len(writer_log))
              - Successful("end_element", Len(writer_log))
    /\ writer.level = XmlWriter_depth(writer)
    /\ writer.in_tag => XmlWriter_depth(writer) > 0
    /\ \A i \in DOMAIN writer_log :
          (writer_log[i].op = "end_element"
             /\ XmlWriter_depth(writer_log[i].before) = 0)
          => /\ ~writer_log[i].ok
             /\ XmlWriter_depth(WriterAfter(i)) = 0

\* two elements have been opened and one closed, and an end_element at depth
\* 0 was refused before them
C28_Witness ==
    /\ Len(writer_log) = 4
    /\ writer_log[1].op = "end_element" /\ ~writer_log[1].ok
    /\ writer_log[2].op = "start_element"
    /\ writer_log[3].op = "start_element"
    /\ writer_log[4].op = "end_element" /\ writer_log[4].ok
    /\ XmlWriter_depth(writer) = 1

\* the type is read through get_text: a string, an integer or a bool, or an
\* Option of one
ReadByGetText(t) ==
    \/ t.kind \in {"str", "u8", "bool"}
    \/ t.kind = "option" /\ t.args[1].kind \in {"str", "u8", "bool"}

\* the value of a known field of such a type is about to be read from the
\* child element whose start tag comes next
ReadingPrimitiveFromElement ==
    /\ de_pc = "value"
    /\ IsChildKey(Last(de_log).key)
    /\ FieldIndex(ty, Last(de_log).key) # 0
    /\ ReadByGetText(ty.args[FieldIndex(ty, Last(de_log).key)])
    /\ UpcomingEvent(de).type = "StartElement"

\* C29: reading a primitive value from an element consumes the element from
\* its start tag to its matching end tag, whatever it contains, so that the
\* next event is the following sibling or the parent's end tag
C29_PrimitiveConsumesItsElement ==
    [][(ReadingPrimitiveFromElement /\ de_pc' = "key")
          => Consumed(de') = Consumed(de)
                + SubtreeLength(de.reader.events, Consumed(de) + 1, 0)]_vars

\* the same for the elements that hold text only
C29_TextElementIsConsumed ==
    [][(/\ ReadingPrimitiveFromElement
        /\ de_pc' = "key"
        /\ de.reader.events[Consumed(de) + 2].type \in {"Text", "EndElement"})
          => Consumed(de') = Consumed(de)
                + SubtreeLength(de.reader.events, Consumed(de) + 1, 0)]_vars

\* ------------------------------------------------------------------------
\* A caller of deserialize_map whose visitor may return before next_key has
\* returned None (de.rs, deserialize_map around visitor.visit_map)
\* ------------------------------------------------------------------------

\* visit_map returns Ok without asking for another key, and deserialize_map
\* consumes the remaining content
VisitorStops ==
    /\ de_pc = "key"
    /\ LET r == IF ~Unwrap(map_de).is_empty
                THEN consume_remaining(de, Value("unit"))
                ELSE DeOk(de, Value("unit"))
       IN /\ de' = r.d
          /\ de_pc' = "done"
          /\ de_result' = Some([ok |-> r.ok, val |-> r.val, err |-> r.err])
    /\ UNCHANGED <<doc, prolog, map_de, de_got, de_log, serVars, tokenizerVars,
                   escapeVars, writerVars>>

VisitorNext == DeNext \/ VisitorStops

SpecVisitor == DeInit /\ [][VisitorNext]_vars

\* C30: when deserialize_struct has returned Ok for a non-empty element, all
\* events up to and including the element's own end tag are consumed and
\* none after it, whether or not the visitor read every child
C30_CursorAfterOwnEndTag ==
    (/\ de_pc = "done"
     /\ Unwrap(de_result).ok
     /\ ~doc.empty)
    => Consumed(de) = Len(de.reader.events) - 1

\* the same for the visitors that go on until next_key returns None, on
\* documents whose children hold text only and whose attributes are all fields
C30_CursorAfterOwnEndTagDerived ==
    (/\ \A i \in 1..Len(de_log) : IsAttrKey(de_log[i].key) => de_log[i].val # None
     /\ \A i \in 1..Len(doc.children) :
           doc.children[i].name # <<>> => doc.children[i].text # <<>>
     /\ de_result # None
     /\ Unwrap(de_result).val # Value("unit"))
    => C30_CursorAfterOwnEndTag

\* ------------------------------------------------------------------------
\* Properties of the order in which StructSerializer writes
\* ------------------------------------------------------------------------

IsPrefix(p, text) == Len(p) <= Len(text) /\ SubSeq(text, 1, Len(p)) = p

\* the opening tag of the struct that is being serialized, with the
\* attributes collected so far
OpeningTagOf(st) == write_start_tag_with_attrs(st.ser, st.elem_name, st.attrs).output

\* serialize_field is called for the first child field of a struct whose
\* text field has been visited and holds text
FirstChildAfterText ==
    /\ ser_next \in 1..Len(ser_value.keys)
    /\ ser_next' = ser_next + 1
    /\ IsChildKey(NextKeyToSerialize)
    /\ ~Unwrap(struct_ser).started
    /\ Unwrap(struct_ser).text_content # None
    /\ Unwrap(Unwrap(struct_ser).text_content) # <<>>

\* C31: when the `$value` / `$text` field is visited before the first child
\* field, the buffered text is written right after the opening tag as that
\* child field is visited, before the child's element
C31_TextBeforeFirstChild ==
    [][FirstChildAfterText
          => IsPrefix(OpeningTagOf(Unwrap(struct_ser))
                         \o Unwrap(Unwrap(struct_ser).text_content),
                      Unwrap(struct_ser').ser.output)]_vars

\* the characters that can follow an element's name in its opening tag
TAG_NAME_END == {" ", ">", "/"}

\* an opening tag (or empty-element tag) of an element called name starts at i
OpensAt(out, name, i) ==
    /\ i + Len(name) + 1 <= Len(out)
    /\ SubSeq(out, i, i + Len(name)) = <<"<">> \o name
    /\ out[i + Len(name) + 1] \in TAG_NAME_END

\* the places of the output where an opening tag of name starts
OpeningTags(out, name) == {i \in 1..Len(out) : OpensAt(out, name, i)}

\* C32: whatever the order in which the fields are visited, nothing is
\* written for a struct before its opening tag, and the opening tag is
\* written exactly once
C32_OpeningTagOnceAndFirst ==
    (struct_ser # None /\ (ser_result # None => Unwrap(ser_result).ok))
        => With(Unwrap(struct_ser), LAMBDA st :
              IF st.ser.output = <<>>
              THEN ~st.started /\ ~Serialized
              ELSE /\ OpeningTags(st.ser.output, st.elem_name) = {1}
                   /\ (st.started \/ Serialized))

\* a struct whose child field was visited before its attribute field has been
\* serialized
C32_Witness ==
    /\ Serialized
    /\ Len(ser_value.keys) = 2
    /\ IsChildKey(ser_value.keys[1])
    /\ IsAttrKey(ser_value.keys[2])
    /\ OpeningTags(Unwrap(ser_result).str, ser_value.name) = {1}

\* ------------------------------------------------------------------------
\* The pending value and the start-consumed flag of the Deserializer
\* ------------------------------------------------------------------------

\* not both a pending value and the start-consumed flag
ExclusiveAt(d) == ~(d.pending_value # None /\ d.start_consumed)

\* the deserializer as the seed's deserialize_* call finds it inside the
\* next_key_seed or next_value_seed call that comes next: an attribute's name
\* or value has been made the pending value
SeedEntry ==
    IF map_de # None /\ Unwrap(map_de).attr_idx < Len(Unwrap(map_de).attrs)
    THEN With(Unwrap(map_de).attrs[Unwrap(map_de).attr_idx + 1], LAMBDA a :
            [de EXCEPT !.pending_value =
                Some(IF de_pc = "key" THEN <<"@">> \o a.name ELSE a.value)])
    ELSE de

PendingSamples == {None, Some(<<"a">>)}

\* get_text on d returns the pending value without touching the flag or the
\* tokenizer; without one it reads on inside the element when the flag is
\* set, and only otherwise looks at the next event itself
GetTextOrder(d) ==
    With(get_text(d), LAMBDA res :
        IF d.pending_value # None
        THEN /\ res.ok
             /\ res.val = Unwrap(d.pending_value)
             /\ res.d = [d EXCEPT !.pending_value = None]
        ELSE IF d.start_consumed THEN res = read_element_text(d)
        ELSE res = get_text_from_events(d))

\* C33: wherever an operation of the deserializer begins or has returned Ok,
\* a pending value and the start-consumed flag are never both set, and
\* get_text consults the pending value, then the flag, then the tokenizer
C33_PendingAndStartConsumedExclusive ==
    (de_pc \in {"start", "key", "value", "end", "done"}
     /\ (de_result # None => Unwrap(de_result).ok))
        => /\ ExclusiveAt(de)
           /\ de_pc \in {"key", "value"} => ExclusiveAt(SeedEntry)
           /\ \A p \in PendingSamples, sc \in BOOLEAN :
                 GetTextOrder([de EXCEPT !.pending_value = p, !.start_consumed = sc])

\* next_value_seed has returned a value that get_text read from a child
\* element, which set the flag on the way, after next_key_seed had returned
\* the element's name from the pending value
C33_Witness ==
    /\ de_pc = "key"
    /\ de_log # <<>>
    /\ IsChildKey(Last(de_log).key)
    /\ Last(de_log).val \in {Some(VStr(<<"1">>)), Some(VSome(VStr(<<"1">>)))}
    /\ ExclusiveAt(de)
    /\ get_text([de EXCEPT !.pending_value = Some(<<"a">>),
                           !.start_consumed = TRUE]).val = <<"a">>

\* ------------------------------------------------------------------------
\* The tokenizer after a failed call, its position, and its progress
\* ------------------------------------------------------------------------

\* next_event has just been called once more
NextEventCalled == Len(calls') = Len(calls) + 1

\* C34: a call of next_event that returns an error leaves the nesting stack
\* as it was, so that depth() is the same before and after the failed call
C34_FailedCallKeepsStack ==
    [][(NextEventCalled /\ Last(calls').ev.type = "Err")
          => element_stack' = element_stack]_vars

\* the events of the given type among the calls made so far
CallsOfType(type) == {i \in 1..Len(calls) : calls[i].ev.type = type}

\* C34, its consequence: Eof is never returned for a document in which more
\* elements were opened than closed
C34_NoEofWithUnclosedElements ==
    CallsOfType("Eof") # {}
        => Cardinality(CallsOfType("StartElement"))
              <= Cardinality(CallsOfType("EndElement"))

\* the newline bytes among the first n bytes of the input
NewlinesBefore(n) == Cardinality({i \in 1..n : i <= Len(input) /\ input[i] = "\n"})

\* C35: a new reader is at line 1, column 1, offset 0; after any calls of
\* next_event the offset is at most the length of the input and the line is
\* 1 plus the number of newline bytes before the offset
C35_PositionTracksInput ==
    /\ calls = <<>> => position(TheReader) = [line |-> 1, column |-> 1, offset |-> 0]
    /\ position(TheReader).offset <= Len(input)
    /\ position(TheReader).line = 1 + NewlinesBefore(position(TheReader).offset)

\* C35, the part about the offset alone
C35_OffsetWithinInput ==
    /\ calls = <<>> => position(TheReader) = [line |-> 1, column |-> 1, offset |-> 0]
    /\ position(TheReader).offset <= Len(input)

\* ------------------------------------------------------------------------
\* A caller that keeps calling next_event, whatever it returns (reader.rs,
\* XmlReader::next_event); only the last two calls are remembered
\* ------------------------------------------------------------------------

MaxLoopFrags == 3

\* pieces of markup: tags that open, close and fail to match, text, a lone
\* `<`, and a DOCTYPE declaration
LoopFragments ==
    { <<"<", "a", ">">>, <<"<", "/", "a", ">">>, <<"<", "/", "b", " ", ">">>,
      <<"t">>, <<"<">>, <<"<", "!", "D", "O", "C", "T", "Y", "P", "E", " ", "a", ">">> }

LoopInputs == Concatenations(LoopFragments, MaxLoopFrags)

\* XmlReader::from_str("")
LoopInit ==
    /\ input = <<>>
    /\ pos = XmlReader(input).pos
    /\ line = XmlReader(input).line
    /\ col = XmlReader(input).col
    /\ element_stack = XmlReader(input).element_stack
    /\ calls = <<>>
    /\ EscapeIdle
    /\ WriterIdle
    /\ SerIdle
    /\ DeIdle

\* the caller makes a new reader, XmlReader::from_str(bytes), before its
\* first call
FromStr ==
    /\ calls = <<>>
    /\ input = <<>>
    /\ \E bytes \in LoopInputs : SetReader(XmlReader(bytes))
    /\ UNCHANGED <<calls, escapeVars, writerVars, serVars, deVars>>

\* reader.next_event(), also after Eof or an error
CallNextEvent ==
    /\ \E res \in {next_event(TheReader)} :
          /\ SetReader(res.r)
          /\ calls' = IF calls = <<>> THEN <<[before |-> TheReader, ev |-> res.ev]>>
                      ELSE <<Last(calls), [before |-> TheReader, ev |-> res.ev]>>
    /\ UNCHANGED <<escapeVars, writerVars, serVars, deVars>>

LoopNext == FromStr \/ CallNextEvent

SpecReaderLoop == LoopInit /\ [][LoopNext]_vars

\* the caller never stops calling
SpecReaderLoopFair == SpecReaderLoop /\ WF_vars(CallNextEvent)

\* the last call returned Eof
EofReceived == calls # <<>> /\ Last(calls).ev.type = "Eof"

\* C36: a caller that keeps calling next_event, also after errors, eventually
\* receives Eof, because every call that does not return Eof advances the
\* byte offset or shrinks the nesting stack
C36_EventuallyEof ==
    /\ [][(calls' # calls /\ Last(calls').ev.type # "Eof")
             => (pos' > pos \/ Len(element_stack') < Len(element_stack))]_vars
    /\ <>EofReceived

\* Eof has been received from the call after one that returned an error
C36_Witness ==
    /\ Len(calls) = 2
    /\ calls[1].ev.type = "Err"
    /\ calls[1].before.pos = Len(input)
    /\ calls[2].ev.type = "Eof"

\* ------------------------------------------------------------------------
\* The Serializer after a successful top-level call
\* ------------------------------------------------------------------------

\* every opening tag of the text is closed by a closing tag of the same name,
\* last opened first closed: the tokenizer, which keeps the open names on its
\* own stack, reads the text through to Eof
TagsBalanced(xml) == Last(events_from(XmlReader(xml))).type = "Eof"

\* C37: after a successful top-level serialize call the Serializer's stack of
\* open elements is empty and its indentation level is 0, every opening tag
\* written having been closed by a closing tag of the same name, last opened
\* first closed
C37_NothingLeftOpen ==
    Serialized
        => /\ Unwrap(struct_ser).ser.element_stack = <<>>
           /\ Unwrap(struct_ser).ser.indent_level = 0
           /\ TagsBalanced(Unwrap(ser_result).str)

\* a struct with a child struct has been serialized: two elements were open
\* at once
C37_Witness ==
    /\ Serialized
    /\ \E i \in 1..Len(ser_value.keys) :
          /\ ser_value.items[i].kind = "struct"
          /\ ser_value.items[i].keys # <<>>
          /\ IsChildKey(ser_value.keys[i])
    /\ Unwrap(struct_ser).ser.element_stack = <<>>
    /\ Unwrap(struct_ser).ser.indent_level = 0

\* ------------------------------------------------------------------------
\* A caller of serialize_map with one entry: serialize_map, serialize_key,
\* serialize_value, end (ser.rs, impl Serialize for BTreeMap<K, V>)
\* ------------------------------------------------------------------------

\* MapSerializer::serialize_key for a key of any type
MapSerializer_serialize_key(s, key) == serialize([s EXCEPT !.is_key = TRUE], key)

\* the key and value types of the maps: (K, V) of BTreeMap<K, V>
MapEntryTypes ==
    {TTuple(<<k, v>>) : k \in {TStr, TU8, TBool}, v \in {TStr, TU8, TBool, TOption(TStr)}}

MapKeyInit ==
    /\ ty \in MapEntryTypes
    /\ ser_value \in ValuesOf(ty)
    /\ struct_ser = None
    /\ ser_next = 0
    /\ ser_result = None
    /\ ReaderIdle
    /\ EscapeIdle
    /\ WriterIdle
    /\ DeIdle

\* the key and the value of the map's entry
EntryKey == ser_value.items[1]
EntryValue == ser_value.items[2]

\* the Serializer behind the MapSerializer
MapSer == Unwrap(struct_ser).ser

\* the outcome of a call on the MapSerializer
MapCalled(res, next) ==
    /\ struct_ser' = Some([ser |-> res.s])
    /\ ser_next' = next
    /\ ser_result' = IF res.ok /\ next < 4 THEN None
                     ELSE Some([ok |-> res.ok, str |-> res.s.output, err |-> res.err])
    /\ UNCHANGED <<ty, ser_value, tokenizerVars, escapeVars, writerVars, deVars>>

\* serializer.serialize_map(Some(1)) on a new Serializer
SerializeMap ==
    /\ ser_result = None /\ ser_next = 0
    /\ MapCalled(SerOk(serialize_map(SerializerNew)), 1)

\* map.serialize_key(&k)?
SerializeKey ==
    /\ ser_result = None /\ ser_next = 1
    /\ MapCalled(MapSerializer_serialize_key(MapSer, EntryKey), 2)

\* map.serialize_value(&v)?
SerializeValue ==
    /\ ser_result = None /\ ser_next = 2
    /\ MapCalled(serialize_value(MapSer, EntryValue), 3)

\* map.end()
MapEnd ==
    /\ ser_result = None /\ ser_next = 3
    /\ MapCalled(SerOk(write_end_tag(MapSer)), 4)

MapKeyNext == SerializeMap \/ SerializeKey \/ SerializeValue \/ MapEnd

SpecMapKey == MapKeyInit /\ [][MapKeyNext]_vars

\* serialize_key has returned Ok with the key's text as the pending key and
\* nothing written
KeyIsPending ==
    /\ ser_result' = None
    /\ ~MapSer'.is_key
    /\ MapSer'.current_key = Some(PrimitiveText(EntryKey))
    /\ MapSer'.output = MapSer.output

\* serialize_value has written the entry as `<key>value</key>`
EntryIsElement ==
    MapSer'.output =
        MapSer.output
            \o (((((<<"<">> \o PrimitiveText(EntryKey)) \o <<">">>)
                     \o escape(PrimitiveText(EntryValue)).str)
                     \o <<"<", "/">>) \o PrimitiveText(EntryKey)) \o <<">">>

\* C38: after serialize_key returns Ok, for a key of any primitive type, the
\* is_key flag is false, current_key holds the key's text and nothing has
\* been appended to the output; serialize_value then writes the entry as
\* `<key>value</key>`
C38_KeyBecomesElementName ==
    [][/\ (ser_next = 1 /\ ser_next' = 2) => KeyIsPending
       /\ (ser_next = 2 /\ ser_next' = 3
             /\ EntryValue.kind \in {"str", "u8", "bool"}) => EntryIsElement]_vars

\* C38 for the keys that are strings
C38_StringKeyBecomesElementName ==
    [][EntryKey.kind = "str"
         => /\ (ser_next = 1 /\ ser_next' = 2) => KeyIsPending
            /\ (ser_next = 2 /\ ser_next' = 3
                  /\ EntryValue.kind \in {"str", "u8", "bool"}) => EntryIsElement]_vars

\* ------------------------------------------------------------------------
\* A caller of deserialize_enum for an enum of unit variants: variant_seed,
\* then unit_variant (de.rs, EnumDeserializer under the derived visit_enum)
\* ------------------------------------------------------------------------

MaxEnumFrags == 3

\* enum E { A, B }
UnitEnum == TEnum(<<"E">>, << <<"A">>, <<"B">> >>)

\* pieces of the input: variant names as bare text and as elements, and what
\* may follow them
EnumFragments ==
    { <<"A">>, <<"B">>, <<"<", "A", "/", ">">>, <<"<", "B", ">">>, <<"<", "/", "B", ">">>,
      <<"<", "e", "/", ">">>, <<" ">> }

EnumInit ==
    /\ ty = UnitEnum
    /\ doc \in Concatenations(EnumFragments, MaxEnumFrags)
    /\ prolog = <<>>
    /\ de = DeserializerFromStr(doc)
    /\ map_de = <<>> /\ de_pc = "start"
    /\ de_got = <<>> /\ de_log = <<>> /\ de_result = None
    /\ ser_value = <<>> /\ struct_ser = <<>> /\ ser_next = 0 /\ ser_result = <<>>
    /\ ReaderIdle
    /\ EscapeIdle
    /\ WriterIdle

IsVariant(t, name) == \E i \in 1..Len(t.keys) : t.keys[i] = name

\* data.variant()? in visit_enum: variant_seed, and the look-up of the name
\* among the variants; de_got keeps the event the name was taken from
VariantSeed ==
    /\ de_pc = "start"
    /\ \E v \in {variant_seed(de)} :
          IF v.ok /\ IsVariant(ty, v.val)
          THEN /\ de' = v.d
               /\ de_got' = UpcomingEvent(de)
               /\ de_log' = <<[key |-> v.val, val |-> None]>>
               /\ de_pc' = "variant"
               /\ UNCHANGED de_result
          ELSE /\ DeFailed(IF v.ok THEN DeErr(v.d, custom("unknown variant")) ELSE v)
               /\ UNCHANGED <<de_got, de_log>>
    /\ UNCHANGED <<doc, prolog, map_de, serVars, tokenizerVars, escapeVars, writerVars>>

\* variant.unit_variant()? in visit_enum
UnitVariant ==
    /\ de_pc = "variant"
    /\ \E u \in {unit_variant(de)} :
          /\ de' = u.d
          /\ de_result' = Some([ok |-> u.ok, val |-> VVariant(de_log[1].key),
                                err |-> u.err])
    /\ de_pc' = "done"
    /\ UNCHANGED <<doc, prolog, map_de, de_got, de_log, serVars, tokenizerVars,
                   escapeVars, writerVars>>

EnumNext == VariantSeed \/ UnitVariant

SpecEnum == EnumInit /\ [][EnumNext]_vars

\* unit_variant returns Ok for a variant that was identified from a bare text
\* event
UnitVariantFromText ==
    /\ de_pc = "variant"
    /\ de_got.type = "Text"
    /\ de_pc' = "done"
    /\ Unwrap(de_result').ok

\* C39: when a unit variant is identified from a bare text event, the text
\* event has been consumed by the time unit_variant returns, and the next
\* peek sees the event after the text
C39_VariantTextIsConsumed ==
    [][UnitVariantFromText
          => /\ Consumed(de') = Consumed(de) + 1
             /\ UpcomingEvent(de') = de.reader.events[Consumed(de) + 2]]_vars

\* a unit variant identified from an element is consumed with its element
C39_VariantElementIsConsumed ==
    [][(/\ de_pc = "variant"
        /\ de_got.type \in {"EmptyElement", "StartElement"}
        /\ de_pc' = "done"
        /\ Unwrap(de_result').ok)
          => Consumed(de') = Consumed(de)
                + SubtreeLength(de.reader.events, Consumed(de) + 1, 0)]_vars

====
